---- MODULE Spec2Model ----
(***************************************************************************)
(* Verification model of the SmartSolver provider gateway (server,         *)
(* POST /api/openai and GET /api/config), the browser-side ApiService      *)
(* (_loadConfig, _callOpenAI and the four operations) and the response     *)
(* parsers (_parseSolutionsResponse, _parseReframingResponse).             *)
(*                                                                         *)
(* JavaScript strings are modelled as sequences of one-character strings,  *)
(* so startsWith / includes are computed and not assumed.  Vendor error    *)
(* messages are sequences of words.  A JavaScript value whose type varies  *)
(* is a record with a kind field k.                                        *)
(***************************************************************************)
EXTENDS Integers, Sequences, FiniteSets, TLC

\* ------------------------------------------------------------------------
\* Bounds of the model
\* ------------------------------------------------------------------------
MaxSelect == 1     \* model-selector change events in one behaviour
MaxLen == 3        \* length (in tokens) of an arbitrary response text
MaxProse == 1      \* length (in tokens) of the prose around an embedded array
MaxInvocations == 3  \* invocations of operations that are pending at once
MaxRequests == 2   \* requests the gateway is handling at once
MaxField == 2      \* length (in characters) of the text of an optional field

\* ------------------------------------------------------------------------
\* Strings
\* ------------------------------------------------------------------------
\* String.prototype.startsWith
StartsWith(s, p) ==
  /\ Len(p) <= Len(s)
  /\ SubSeq(s, 1, Len(p)) = p

\* String.prototype.includes
Includes(s, p) ==
  \E i \in 0..(Len(s) - Len(p)) : SubSeq(s, i + 1, i + Len(p)) = p

CLAUDE == <<"c","l","a","u","d","e">>
OPUS == <<"o","p","u","s">>
SONNET == <<"s","o","n","n","e","t">>
HAIKU == <<"h","a","i","k","u">>
K16 == <<"1","6","k">>
GPT4 == <<"g","p","t","-","4">>
GPT4O == GPT4 \o <<"o">>
GPT35_16K == <<"g","p","t","-","3",".","5","-">> \o K16
CLAUDE3 == CLAUDE \o <<"-","3","-">>
CLAUDE3_OPUS == CLAUDE3 \o OPUS
CLAUDE3_SONNET == CLAUDE3 \o SONNET
CLAUDE3_HAIKU == CLAUDE3 \o HAIKU
CLAUDE2 == CLAUDE \o <<"-","2">>
CLAUDE_SONNET_OPUS == CLAUDE \o <<"-">> \o SONNET \o <<"-">> \o OPUS
CLAUDE_HAIKU_SONNET == CLAUDE \o <<"-">> \o HAIKU \o <<"-">> \o SONNET
CAP_CLAUDE3_OPUS == <<"C">> \o Tail(CLAUDE3_OPUS)
MY_CLAUDE == <<"m","y","-">> \o CLAUDE

\* the dated identifiers of server lines 88, 90, 92
OPUS_DATED == CLAUDE3_OPUS \o <<"-","2","0","2","4","0","2","2","9">>
SONNET_DATED == CLAUDE \o <<"-","3","-","7","-">> \o SONNET \o <<"-","2","0","2","5","0","2","1","9">>
HAIKU_DATED == CLAUDE3_HAIKU \o <<"-","2","0","2","4","0","3","0","7">>

\* model names the user can pick or a caller can post
ModelNames ==
  { GPT4, GPT35_16K, CLAUDE3_OPUS, CLAUDE3_SONNET, CLAUDE3_HAIKU, CLAUDE2,
    CLAUDE_SONNET_OPUS, CLAUDE_HAIKU_SONNET, CAP_CLAUDE3_OPUS, MY_CLAUDE }

\* a JavaScript value that is undefined / a property that is absent
Absent == <<"<", "undefined", ">">>

\* ------------------------------------------------------------------------
\* Process configuration (process.env); fixed for the life of the process
\* ------------------------------------------------------------------------
NoKey == << >>
OpenAIKey == <<"s","k","-","o","p","e","n","A","I","k","e","y">>
AnthropicKey == <<"s","k","-","a","n","t","-","k","e","y">>
ShortKey == <<"s","k","-","1">>

EnvSet ==
  [ OPENAI_API_KEY : {NoKey, OpenAIKey, ShortKey},
    ANTHROPIC_API_KEY : {NoKey, AnthropicKey},
    OPENAI_MODEL : {Absent, CLAUDE3_SONNET} ]

\* ------------------------------------------------------------------------
\* JavaScript / JSON values
\* ------------------------------------------------------------------------
Undef == [k |-> "undef"]
Str(w) == [k |-> "str", w |-> w]
Arr(items) == [k |-> "arr", items |-> items]
ErrObj(message, type) == [k |-> "obj", message |-> message, type |-> type]

\* the values JavaScript takes for false in a || b
Falsy(a) == a.k \in {"undef", "null", "false"} \/ (a.k = "str" /\ a.w = << >>)

\* a || b
OrElse(a, b) == IF Falsy(a) THEN b ELSE a

\* data.error?.message and data.error?.type
ErrorMessage(error) == IF error.k = "obj" THEN error.message ELSE Undef
ErrorType(error) == IF error.k = "obj" THEN error.type ELSE Undef

\* a parsed JSON body: the properties the code reads
Data(error, content, choices) ==
  [json |-> TRUE, error |-> error, detail |-> Undef, content |-> content,
   choices |-> choices]

\* texts a vendor replies with, as token sequences of the response parser
TXT_PROSE == <<"p", "p">>
TXT_ARRAY == <<"p", "[", "oX", "]">>
ReplyTexts == {TXT_PROSE, TXT_ARRAY}

CREDIT_BALANCE == <<"credit", "balance">>
MSG_CREDIT == <<"Your">> \o CREDIT_BALANCE \o <<"is", "too", "low">>
MSG_BALANCE_CREDIT == <<"balance", "of", "credit">>
MSG_OVERLOADED == <<"Overloaded">>
MSG_BAD_KEY == <<"Incorrect", "API", "key">>
MSG_NETWORK == <<"fetch", "failed">>
MSG_NOT_JSON == <<"Unexpected", "token">>
MSG_TYPE_ERROR == <<"Cannot", "read", "properties", "of", "undefined">>
MSG_NO_HANDLER == <<"handleAPIRequest", "is", "not", "defined">>
MSG_REQUEST_FAILED == <<"API", "request", "failed">>
MSG_UNKNOWN == <<"Unknown", "error">>
MSG_NOT_AVAILABLE == <<"Model", "not", "available">>
SYSTEM_PROMPT == <<"You", "are", "an", "expert", "problem-solving", "assistant">>

\* what a vendor can answer to a chat call; a vendor that answers with a
\* success status answers in its documented shape
OpenAIReplies ==
  { [t |-> "reject"], [t |-> "nonjson", ok |-> TRUE, status |-> 200] }
  \cup { [t |-> "json", ok |-> TRUE, status |-> 200,
          data |-> Data(Undef, Undef, Arr(<<[message |-> [content |-> Str(x)]]>>))]
         : x \in ReplyTexts }
  \cup { [t |-> "json", ok |-> FALSE, status |-> 401,
          data |-> Data(ErrObj(Str(MSG_BAD_KEY), Str(<<"invalid_request_error">>)), Undef, Undef)],
         [t |-> "json", ok |-> FALSE, status |-> 429,
          data |-> Data(ErrObj(Str(MSG_CREDIT), Str(<<"insufficient_quota">>)), Undef, Undef)],
         [t |-> "json", ok |-> FALSE, status |-> 502,
          data |-> Data(Undef, Undef, Undef)] }

AnthropicReplies ==
  { [t |-> "reject"], [t |-> "nonjson", ok |-> FALSE, status |-> 502] }
  \cup { [t |-> "json", ok |-> TRUE, status |-> 200,
          data |-> Data(Undef, Arr(<<[type |-> "text", text |-> Str(x)]>>), Undef)]
         : x \in ReplyTexts }
  \cup { [t |-> "json", ok |-> TRUE, status |-> 200,
          data |-> Data(Undef, Arr(<< >>), Undef)],
         [t |-> "json", ok |-> FALSE, status |-> 400,
          data |-> Data(ErrObj(Str(MSG_CREDIT), Str(<<"invalid_request_error">>)), Undef, Undef)],
         [t |-> "json", ok |-> FALSE, status |-> 400,
          data |-> Data(ErrObj(Str(MSG_BALANCE_CREDIT), Str(<<"invalid_request_error">>)), Undef, Undef)],
         [t |-> "json", ok |-> FALSE, status |-> 529,
          data |-> Data(ErrObj(Undef, Str(<<"overloaded_error">>)), Undef, Undef)],
         [t |-> "json", ok |-> FALSE, status |-> 500,
          data |-> Data(Str(MSG_OVERLOADED), Undef, Undef)] }

ChatReplies(vendor) == IF vendor = "anthropic" THEN AnthropicReplies ELSE OpenAIReplies

\* what Anthropic can answer to GET /v1/models
ModelsReplies ==
  { [t |-> "reject"],
    [t |-> "json", ok |-> FALSE, ids |-> {}, hasData |-> FALSE],
    [t |-> "json", ok |-> TRUE, ids |-> {}, hasData |-> FALSE],
    [t |-> "json", ok |-> TRUE, ids |-> {OPUS_DATED}, hasData |-> TRUE],
    [t |-> "json", ok |-> TRUE, ids |-> {OPUS_DATED, SONNET_DATED, HAIKU_DATED, CLAUDE2},
     hasData |-> TRUE] }

\* ------------------------------------------------------------------------
\* Response parser
\* ------------------------------------------------------------------------
\* A response text is a sequence of tokens.  "[", "]" and "," are those
\* characters, "w" is a whitespace character and "p" a letter of prose.
\* The other tokens stand for a whole JSON literal or a piece of one, none
\* of which contains a bracket: "s" a string literal, "null" the literal
\* null, "oX" the object {"title":"X"}, "oF" an object with all of title,
\* description, content, icon and isAI:false, "oN" the object
\* {"description":"D"}, "oE" the object {"title":"","content":"C","icon":""},
\* "{k:" the opening of an object up to the colon after its only key, and
\* "}" its closing brace.
Tokens == {"[", "]", ",", "w", "p", "s", "null", "oX", "oF", "oN", "oE", "{k:", "}"}
AtomTokens == {"s", "null", "oX", "oF", "oN", "oE"}

Missing == [k |-> "missing"]
Null == [k |-> "null"]
Num == [k |-> "num"]
JsonString == [k |-> "string"]
Object(title, description, content, icon, isAI) ==
  [k |-> "object", title |-> title, description |-> description,
   content |-> content, icon |-> icon, isAI |-> isAI]
ResponseObject(content) == [k |-> "obj", content |-> content]

AtomValue(tok) ==
  CASE tok = "s" -> JsonString
    [] tok = "null" -> Null
    [] tok = "oX" -> Object(Str(<<"X">>), Undef, Undef, Undef, Undef)
    [] tok = "oF" -> Object(Str(<<"T">>), Str(<<"D">>), Str(<<"C">>), Str(<<"fas fa-brain">>),
                            [k |-> "false"])
    [] tok = "oN" -> Object(Undef, Str(<<"D">>), Undef, Undef, Undef)
    [] tok = "oE" -> Object(Str(<< >>), Undef, Str(<<"C">>), Str(<< >>), Undef)

ParseFail == [ok |-> FALSE, v |-> Undef, next |-> 0]
ParseOk(v, next) == [ok |-> TRUE, v |-> v, next |-> next]

\* the first position from i on that holds no whitespace
RECURSIVE SkipWs(_, _)
SkipWs(s, i) == IF i <= Len(s) /\ s[i] = "w" THEN SkipWs(s, i + 1) ELSE i

\* the JSON grammar over tokens: a value starting at position i
RECURSIVE ParseValue(_, _)
RECURSIVE ParseElements(_, _, _)
ParseValue(s, i) ==
  IF i > Len(s) THEN ParseFail
  ELSE IF s[i] \in AtomTokens THEN ParseOk(AtomValue(s[i]), i + 1)
  ELSE IF s[i] = "["
       THEN LET j == SkipWs(s, i + 1)
            IN IF j <= Len(s) /\ s[j] = "]" THEN ParseOk(Arr(<< >>), j + 1)
               ELSE ParseElements(s, j, << >>)
  ELSE IF s[i] = "{k:"
       THEN LET r == ParseValue(s, SkipWs(s, i + 1))
                j == SkipWs(s, r.next)
            IN IF r.ok /\ j <= Len(s) /\ s[j] = "}"
               THEN ParseOk(Object(Undef, Undef, Undef, Undef, Undef), j + 1)
               ELSE ParseFail
  ELSE ParseFail

ParseElements(s, i, acc) ==
  LET r == ParseValue(s, i)
      j == SkipWs(s, r.next)
  IN IF ~r.ok \/ j > Len(s) THEN ParseFail
     ELSE IF s[j] = "]" THEN ParseOk(Arr(Append(acc, r.v)), j + 1)
     ELSE IF s[j] = "," THEN ParseElements(s, SkipWs(s, j + 1), Append(acc, r.v))
     ELSE ParseFail

\* JSON.parse of a string: the value, or a SyntaxError (ok = FALSE)
JSONParseText(s) ==
  LET r == ParseValue(s, SkipWs(s, 1))
  IN IF r.ok /\ SkipWs(s, r.next) = Len(s) + 1 THEN r ELSE ParseFail

\* JSON.parse(x) converts x to a string first: undefined and an object are
\* then not JSON text, null and a number are
JSONParse(x) ==
  CASE x.k = "str" -> JSONParseText(x.w)
    [] x.k = "null" -> ParseOk(Null, 0)
    [] x.k = "num" -> ParseOk(Num, 0)
    [] OTHER -> ParseFail

\* text.match(/\[[\s\S]*\]/): the span from the first "[" to the last "]"
Positions(s, tok) == {i \in 1..Len(s) : s[i] = tok}
Min(S) == CHOOSE x \in S : \A y \in S : x <= y
Max(S) == CHOOSE x \in S : \A y \in S : x >= y
\* a parser without the extraction of a span from the text
HasBracketSpanNever(s) == FALSE

HasBracketSpan(s) ==
  /\ Positions(s, "[") # {}
  /\ Positions(s, "]") # {}
  /\ Min(Positions(s, "[")) < Max(Positions(s, "]"))
BracketSpan(s) == SubSeq(s, Min(Positions(s, "[")), Max(Positions(s, "]")))

\* an evaluation that either yields a value or throws
Returned(v) == [thrown |-> FALSE, value |-> v]
Thrown == [thrown |-> TRUE, value |-> Undef]

\* responseText (lines 365-366, 412-413): reading a property of null or
\* undefined throws
ResponseText(response) ==
  CASE response.k = "str" -> Returned(response)
    [] response.k = "obj" -> Returned(response.content)
    [] response.k = "num" -> Returned(Undef)
    [] OTHER -> Thrown

\* the inner try/catch (lines 369-379, 416-426): the parsed JSON, or a throw
ExtractJSON(responseText) ==
  LET direct == JSONParse(responseText)
  IN IF direct.ok THEN Returned(direct.v)
     ELSE IF responseText.k # "str" THEN Thrown
     ELSE IF HasBracketSpan(responseText.w)
          THEN LET inner == JSONParseText(BracketSpan(responseText.w))
               IN IF inner.ok THEN Returned(inner.v) ELSE Thrown
          ELSE Thrown

Solution(title, description, content, icon) ==
  [title |-> title, description |-> description, content |-> content,
   icon |-> icon, isAI |-> TRUE]

\* a normalisation that numbers the default titles from 0
NormalizeSolutionZeroBased(v, i) ==
  IF v.k = "object"
  THEN Solution(OrElse(v.title, Str(<<"Solution", ToString(i - 1)>>)),
                OrElse(v.description, Str(<< >>)),
                OrElse(v.content, Str(<< >>)),
                OrElse(v.icon, Str(<<"fas fa-lightbulb">>)))
  ELSE Solution(Str(<<"Solution", ToString(i - 1)>>), Str(<< >>), Str(<< >>),
                Str(<<"fas fa-lightbulb">>))

\* one element of solutions.map (lines 382-388), i the 1-based position
NormalizeSolution(v, i) ==
  IF v.k = "object"
  THEN Solution(OrElse(v.title, Str(<<"Solution", ToString(i)>>)),
                OrElse(v.description, Str(<< >>)),
                OrElse(v.content, Str(<< >>)),
                OrElse(v.icon, Str(<<"fas fa-lightbulb">>)))
  ELSE Solution(Str(<<"Solution", ToString(i)>>), Str(<< >>), Str(<< >>),
                Str(<<"fas fa-lightbulb">>))

\* a normalisation that wraps a value that is not an array into one
NormalizeSolutionsWrapping(v) ==
  LET items == IF v.k = "arr" THEN v.items ELSE <<v>>
  IN IF \E i \in 1..Len(items) : items[i].k = "null" THEN Thrown
     ELSE Returned([i \in 1..Len(items) |-> NormalizeSolution(items[i], i)])

\* solutions.map(...): throws unless solutions is an array without null
NormalizeSolutions(v) ==
  IF v.k # "arr" THEN Thrown
  ELSE IF \E i \in 1..Len(v.items) : v.items[i].k = "null" THEN Thrown
  ELSE Returned([i \in 1..Len(v.items) |-> NormalizeSolution(v.items[i], i)])

\* the body of the outer try of _parseSolutionsResponse
SolutionsTry(response) ==
  LET text == ResponseText(response)
      json == ExtractJSON(text.value)
  IN IF text.thrown THEN Thrown
     ELSE IF json.thrown THEN Thrown
     ELSE NormalizeSolutions(json.value)

\* the record of the outer catch (lines 392-399)
FallbackSolution(response) ==
  [title |-> Str(<<"AI Solution Approach">>), description |-> Missing,
   content |-> response, icon |-> Str(<<"fas fa-robot">>), isAI |-> TRUE]

\* a parser whose outer try has no catch
_parseSolutionsResponseUncaught(response) == SolutionsTry(response)

_parseSolutionsResponse(response) ==
  LET r == SolutionsTry(response)
  IN IF r.thrown THEN Returned(<<FallbackSolution(response)>>) ELSE r

\* the body of the outer try of _parseReframingResponse
ReframingTry(response) ==
  LET text == ResponseText(response)
      json == ExtractJSON(text.value)
  IN IF text.thrown THEN Thrown
     ELSE IF json.thrown THEN Thrown
     ELSE IF json.value.k = "arr" THEN Returned(json.value.items)
     ELSE Returned(<<response>>)

\* a parser that hands on only the first statement of an array
_parseReframingResponseFirstOnly(response) ==
  LET r == ReframingTry(response)
  IN IF r.thrown THEN Returned(<<response>>)
     ELSE Returned(SubSeq(r.value, 1, IF Len(r.value) > 1 THEN 1 ELSE Len(r.value)))

_parseReframingResponse(response) ==
  LET r == ReframingTry(response)
  IN IF r.thrown THEN Returned(<<response>>) ELSE r

\* ------------------------------------------------------------------------
\* State
\* ------------------------------------------------------------------------
VARIABLES
  env,        \* process.env of the server
  gwPc,       \* position of the POST /api/openai handler
  gwSrc,      \* who posted the request being handled
  gwBody,     \* req.body (the fallback branch assigns to it)
  gwProvider, \* the handler's const provider
  gwCalls,    \* outbound vendor calls of the request being handled, in order
  gwReplies,  \* the vendor's answers to those calls, in order
  gwResps,    \* responses sent for the request being handled, in order
  cfgState,   \* "loading" until _loadConfig has settled
  config,     \* this.config
  model,      \* this.model
  opPc,       \* position of the client operation in progress
  opKind,     \* which of the four operations it is
  attempt,    \* the loop variable of _callOpenAI
  attempts,   \* the fetches of this call of _callOpenAI, in order
  lastError,  \* lastError of _callOpenAI
  callResult, \* how the call of _callOpenAI completed
  opResult,   \* how the operation settled
  wire,       \* a request of the page on its way to the gateway
  sleepLeft,  \* seconds left of the backoff timer
  slept,      \* seconds slept since the last failed attempt
  nSelect,    \* model-selector changes so far
  response,   \* the input of the response parsers
  parts,      \* how that input was put together, when it embeds an array
  solutions,  \* what _parseSolutionsResponse returned for it
  reframes,   \* what _parseReframingResponse returned for it
  invocations, \* the invocations of operations that have not settled, in order
  handlers,   \* the POST /api/openai handlers running at once, by request
  fields,     \* the optional input fields of the page and the context argument
  prompts     \* the prompts built from them

gwVars == <<gwPc, gwSrc, gwBody, gwProvider, gwCalls, gwReplies, gwResps>>
clientVars == <<cfgState, config, model, opPc, opKind, attempt, attempts, lastError,
                callResult, opResult, wire, sleepLeft, slept, nSelect>>
parserVars == <<response, parts, solutions, reframes>>
pageVars == <<invocations>>
concVars == <<handlers>>
promptVars == <<fields, prompts>>
vars == <<env, gwVars, clientVars, parserVars, pageVars, concVars, promptVars>>

\* ------------------------------------------------------------------------
\* Gateway: POST /api/openai
\* ------------------------------------------------------------------------
DefaultMaxTokens == 4000
LargeMaxTokens == 16000
ANTHROPIC_VERSION == "2023-06-01"

\* request bodies: provider "none" and max_tokens 0 stand for an absent field
Message(role, content) == [role |-> role, content |-> content]
Body(modelName, messages, maxTokens, provider) ==
  [model |-> modelName, messages |-> messages, max_tokens |-> maxTokens,
   provider |-> provider]

\* const provider = req.body.provider || 'openai'
ProviderOf(body) == IF body.provider = "none" THEN "openai" ELSE body.provider

\* const apiKey = provider === 'anthropic' ? ANTHROPIC_API_KEY : OPENAI_API_KEY
ApiKeyFor(provider, e) ==
  IF provider = "anthropic" THEN e.ANTHROPIC_API_KEY ELSE e.OPENAI_API_KEY

\* provider.toUpperCase()
ToUpperCase(provider) == IF provider = "anthropic" THEN "ANTHROPIC" ELSE "OPENAI"

\* a response sent with res.status(..).json(..)
Response(status, error, detail, content, choices) ==
  [status |-> status,
   body |-> [json |-> TRUE, error |-> error, detail |-> detail, content |-> content,
             choices |-> choices]]

ErrorResponse(status, error, detail) == Response(status, error, detail, Undef, Undef)

\* res.status(500).json({ error: `${provider.toUpperCase()} API key not configured` })
NotConfiguredResponse(provider) ==
  ErrorResponse(500, Str(<<ToUpperCase(provider), "API", "key", "not", "configured">>), Undef)

\* catch (error) { return res.status(500).json({ error: error.message }) }
CaughtResponse(message) == ErrorResponse(500, Str(message), Undef)

\* the framework's answer when the handler's promise rejects: none, or the
\* default error page, which is not a JSON body
DefaultErrorPage ==
  [status |-> 500,
   body |-> [json |-> FALSE, error |-> Undef, detail |-> Undef, content |-> Undef,
             choices |-> Undef]]
UnhandledOutcomes == { << >>, <<DefaultErrorPage>> }

\* the console.log of lines 36-42 reads req.body.messages[1].content
LogContextThrows(body) == Len(body.messages) < 2

\* formattedMessages
FormattedMessages(provider, messages) ==
  IF provider = "anthropic"
  THEN [i \in 1..Len(messages) |->
          Message(IF messages[i].role = "system" THEN "assistant" ELSE "user",
                  messages[i].content)]
  ELSE messages

\* a mapping that tests sonnet before opus
FinalModelNameSonnetFirst(provider, modelName) ==
  IF provider = "anthropic"
  THEN IF Includes(modelName, SONNET) THEN SONNET_DATED
       ELSE IF Includes(modelName, OPUS) THEN OPUS_DATED
       ELSE IF Includes(modelName, HAIKU) THEN HAIKU_DATED
       ELSE modelName
  ELSE modelName

\* finalModelName
FinalModelName(provider, modelName) ==
  IF provider = "anthropic"
  THEN IF Includes(modelName, OPUS) THEN OPUS_DATED
       ELSE IF Includes(modelName, SONNET) THEN SONNET_DATED
       ELSE IF Includes(modelName, HAIKU) THEN HAIKU_DATED
       ELSE modelName
  ELSE modelName

\* provider === 'anthropic' && !modelName.includes('opus')
NeedsModelCheck(provider, modelName) ==
  provider = "anthropic" /\ ~Includes(modelName, OPUS)

\* the GET https://api.anthropic.com/v1/models call
ModelsCall(apiKey) ==
  [vendor |-> "anthropic", endpoint |-> "models", model |-> Absent,
   messages |-> << >>, system |-> << >>, max_tokens |-> 0,
   bearer |-> NoKey, xApiKey |-> apiKey, version |-> ANTHROPIC_VERSION]

\* a handler that forwards the first message of the request to Anthropic
ChatCallFirstMessage(provider, apiKey, body) ==
  IF provider = "anthropic"
  THEN [vendor |-> "anthropic", endpoint |-> "messages",
        model |-> FinalModelName(provider, body.model),
        messages |-> <<Message("user",
            FormattedMessages(provider, body.messages)[1].content)>>,
        system |-> SYSTEM_PROMPT, max_tokens |-> DefaultMaxTokens,
        bearer |-> apiKey, xApiKey |-> apiKey, version |-> ANTHROPIC_VERSION]
  ELSE [vendor |-> "openai", endpoint |-> "chat",
        model |-> IF body.model = Absent THEN GPT4 ELSE body.model,
        messages |-> FormattedMessages(provider, body.messages),
        system |-> << >>,
        max_tokens |-> IF body.max_tokens = 0 THEN DefaultMaxTokens ELSE body.max_tokens,
        bearer |-> apiKey, xApiKey |-> NoKey, version |-> "none"]

\* requestBody and headers of the chat call
ChatCall(provider, apiKey, body) ==
  IF provider = "anthropic"
  THEN [vendor |-> "anthropic", endpoint |-> "messages",
        model |-> FinalModelName(provider, body.model),
        messages |-> <<Message("user",
            FormattedMessages(provider, body.messages)[Len(body.messages)].content)>>,
        system |-> SYSTEM_PROMPT, max_tokens |-> DefaultMaxTokens,
        bearer |-> apiKey, xApiKey |-> apiKey, version |-> ANTHROPIC_VERSION]
  ELSE [vendor |-> "openai", endpoint |-> "chat",
        model |-> IF body.model = Absent THEN GPT4 ELSE body.model,
        messages |-> FormattedMessages(provider, body.messages),
        system |-> << >>,
        max_tokens |-> IF body.max_tokens = 0 THEN DefaultMaxTokens ELSE body.max_tokens,
        bearer |-> apiKey, xApiKey |-> NoKey, version |-> "none"]

\* a handler that takes every vendor error for the credit case
IsCreditErrorAlways(data) == TRUE

\* data.error?.message?.includes('credit balance')
IsCreditError(data) ==
  /\ ErrorMessage(data.error).k = "str"
  /\ Includes(ErrorMessage(data.error).w, CREDIT_BALANCE)

\* the fallback branch of lines 157-162: it assigns the provider and the
\* model of req.body and calls handleAPIRequest, a name the file never
\* defines, so the call raises a ReferenceError that the catch of line 182
\* turns into a 500 response
FallbackBody(body) == [body EXCEPT !.provider = "openai", !.model = GPT4]
FallbackResponse == CaughtResponse(MSG_NO_HANDLER)

\* the response to a non-success status that is not the fallback case
VendorErrorResponse(status, data) ==
  ErrorResponse(status,
                OrElse(data.error, Str(MSG_REQUEST_FAILED)),
                OrElse(ErrorMessage(data.error),
                       OrElse(ErrorType(data.error), Str(MSG_UNKNOWN))))

\* a success path that hands on the vendor's body whatever the vendor
SuccessResponsePassThrough(provider, data) == [status |-> 200, body |-> data]

\* the response to a success status
SuccessResponse(provider, data) ==
  IF provider = "anthropic"
  THEN IF data.content.k = "arr" /\ Len(data.content.items) >= 1
       THEN Response(200, Undef, Undef, Undef,
                     Arr(<<[message |-> [content |-> data.content.items[1].text]]>>))
       ELSE CaughtResponse(MSG_TYPE_ERROR)
  ELSE [status |-> 200, body |-> data]

\* everything the handler does once the chat call has settled (lines 151-185)
AfterChat(provider, reply) ==
  IF reply.t = "reject" THEN CaughtResponse(MSG_NETWORK)
  ELSE IF reply.t = "nonjson" THEN CaughtResponse(MSG_NOT_JSON)
  ELSE IF ~reply.ok
       THEN IF provider = "anthropic" /\ IsCreditError(reply.data)
            THEN FallbackResponse
            ELSE VendorErrorResponse(reply.status, reply.data)
       ELSE SuccessResponse(provider, reply.data)

\* req.body after the handler has dealt with the chat reply
BodyAfterChat(provider, reply, body) ==
  IF reply.t = "json" /\ ~reply.ok /\ provider = "anthropic" /\ IsCreditError(reply.data)
  THEN FallbackBody(body)
  ELSE body

\* the handler from its entry to its first await or to its response: where
\* it then stands, the calls it has made and the responses it has sent
Entries(body, e) ==
  LET provider == ProviderOf(body)
      apiKey == ApiKeyFor(provider, e)
  IN IF LogContextThrows(body)
     THEN { [pc |-> "unhandled", calls |-> << >>, resps |-> out] : out \in UnhandledOutcomes }
     ELSE IF apiKey = NoKey
     THEN { [pc |-> "responded", calls |-> << >>,
             resps |-> <<NotConfiguredResponse(provider)>>] }
     ELSE IF provider = "anthropic" /\ body.model = Absent
     THEN { [pc |-> "responded", calls |-> << >>,
             resps |-> <<CaughtResponse(MSG_TYPE_ERROR)>>] }
     ELSE IF NeedsModelCheck(provider, body.model)
     THEN { [pc |-> "models", calls |-> <<ModelsCall(apiKey)>>, resps |-> << >>] }
     ELSE { [pc |-> "chat", calls |-> <<ChatCall(provider, apiKey, body)>>, resps |-> << >>] }

GwEnter(body, src) ==
  /\ gwPc = "idle"
  /\ gwSrc' = src
  /\ gwBody' = body
  /\ gwProvider' = ProviderOf(body)
  /\ gwReplies' = << >>
  /\ \E h \in Entries(body, env) :
       /\ gwPc' = h.pc
       /\ gwCalls' = h.calls
       /\ gwResps' = h.resps

\* bodies a caller other than the page can post
DirectBodies ==
  { Body(m, msgs, mt, pr) :
      m \in ModelNames \cup {Absent},
      msgs \in { << >>, <<Message("user", "PROMPT")>>,
                 <<Message("system", "SYS"), Message("user", "PROMPT")>>,
                 <<Message("user", "PROMPT"), Message("system", "SYS")>> },
      mt \in {0, LargeMaxTokens},
      pr \in {"none", "openai", "anthropic"} }

\* bodies without a provider field
BareBodies ==
  { Body(m, <<Message("system", "SYS"), Message("user", "PROMPT")>>, 0, "none") :
      m \in {GPT4, CLAUDE3_OPUS, Absent} }

\* a request posted to the gateway by something other than the page
GwReceiveDirect ==
  /\ \E body \in DirectBodies : GwEnter(body, "direct")
  /\ UNCHANGED <<env, clientVars, parserVars, pageVars, concVars, promptVars>>

\* the same, for a request without a provider field, posted before the page
\* has invoked an operation
GwReceiveBare ==
  /\ opPc = "idle"
  /\ \E body \in BareBodies : GwEnter(body, "direct")
  /\ UNCHANGED <<env, clientVars, parserVars, pageVars, concVars, promptVars>>

\* what the try block of the model check throws (lines 98-115): the
\* rejection of the fetch, the TypeError of models.data.map when the answer
\* has no list, or the Error of line 113 when the list lacks the model
ModelCheckThrows(reply, finalModelName) ==
  \/ reply.t = "reject"
  \/ reply.ok /\ ~reply.hasData
  \/ reply.ok /\ reply.hasData /\ finalModelName \notin reply.ids

\* a model check whose errors reach the catch of the handler
AfterModelCheckUncaught(reply, finalModelName) ==
  IF ModelCheckThrows(reply, finalModelName) THEN "caught" ELSE "chat"

\* where the handler goes after the model check: its own catch (lines
\* 116-118) logs what the try block throws, and the handler goes on
AfterModelCheck(reply, finalModelName) ==
  IF ModelCheckThrows(reply, finalModelName) THEN "chat" ELSE "chat"

\* the model-list call settles (lines 107-118) and the handler makes the
\* chat call (lines 121-149)
GwModelsReturn ==
  /\ gwPc = "models"
  /\ \E reply \in ModelsReplies :
       /\ gwReplies' = Append(gwReplies, reply)
       /\ IF AfterModelCheck(reply, FinalModelName(gwProvider, gwBody.model)) = "chat"
          THEN /\ gwCalls' = Append(gwCalls,
                      ChatCall(gwProvider, ApiKeyFor(gwProvider, env), gwBody))
               /\ gwPc' = "chat"
               /\ UNCHANGED gwResps
          ELSE /\ gwResps' = Append(gwResps, CaughtResponse(MSG_NOT_AVAILABLE))
               /\ gwPc' = "responded"
               /\ UNCHANGED gwCalls
  /\ UNCHANGED <<env, gwSrc, gwBody, gwProvider, clientVars, parserVars, pageVars, concVars, promptVars>>

\* the chat call settles and the handler responds
GwChatReturn ==
  /\ gwPc = "chat"
  /\ \E reply \in ChatReplies(gwProvider) :
       /\ gwReplies' = Append(gwReplies, reply)
       /\ gwResps' = Append(gwResps, AfterChat(gwProvider, reply))
       /\ gwBody' = BodyAfterChat(gwProvider, reply, gwBody)
  /\ gwPc' = "responded"
  /\ UNCHANGED <<env, gwSrc, gwProvider, gwCalls, clientVars, parserVars, pageVars, concVars, promptVars>>

\* the handler's request is over: nothing of it stays in the process
GwForget ==
  /\ gwPc' = "idle"
  /\ gwSrc' = "none"
  /\ gwBody' = Body(Absent, << >>, 0, "none")
  /\ gwProvider' = "openai"
  /\ gwCalls' = << >>
  /\ gwReplies' = << >>
  /\ gwResps' = << >>

\* the connection of a posted request is closed
GwDirectDone ==
  /\ gwSrc = "direct"
  /\ gwPc \in {"responded", "unhandled"}
  /\ GwForget
  /\ UNCHANGED <<env, clientVars, parserVars, pageVars, concVars, promptVars>>

\* ------------------------------------------------------------------------
\* Gateway: the second definition of the handler in server.js
\* ------------------------------------------------------------------------
\* server.js holds two servers; the second one (lines 158-232) forwards
\* req.body as it is to the endpoint of the provider.

\* fetch(apiUrl, { headers: { 'Authorization': `Bearer ${process.env.OPENAI_API_KEY}` },
\* body: JSON.stringify(req.body) }) (lines 197-208)
ServerJsChatCall(provider, e, body) ==
  [vendor |-> provider,
   endpoint |-> IF provider = "anthropic" THEN "messages" ELSE "chat",
   model |-> body.model, messages |-> body.messages, system |-> << >>,
   max_tokens |-> body.max_tokens,
   bearer |-> e.OPENAI_API_KEY, xApiKey |-> NoKey, version |-> "none"]

\* lines 210-220: the vendor's body is handed on with the vendor's status
ServerJsAfterChat(reply) ==
  IF reply.t = "reject" THEN CaughtResponse(MSG_NETWORK)
  ELSE IF reply.t = "nonjson" THEN CaughtResponse(MSG_NOT_JSON)
  ELSE [status |-> reply.status, body |-> reply.data]

\* the handler from its entry to its fetch or to its response (lines 188-208)
ServerJsReceive ==
  /\ gwPc = "idle"
  /\ \E body \in DirectBodies :
       LET provider == ProviderOf(body)
       IN /\ gwBody' = body
          /\ gwProvider' = provider
          /\ IF ApiKeyFor(provider, env) = NoKey
             THEN /\ gwPc' = "responded"
                  /\ gwCalls' = << >>
                  /\ gwResps' = <<NotConfiguredResponse(provider)>>
             ELSE /\ gwPc' = "chat"
                  /\ gwCalls' = <<ServerJsChatCall(provider, env, body)>>
                  /\ gwResps' = << >>
  /\ gwSrc' = "direct"
  /\ gwReplies' = << >>
  /\ UNCHANGED <<env, clientVars, parserVars, pageVars, concVars, promptVars>>

\* the fetch settles and the handler responds (lines 210-220)
ServerJsChatReturn ==
  /\ gwPc = "chat"
  /\ \E reply \in ChatReplies(gwProvider) :
       /\ gwReplies' = Append(gwReplies, reply)
       /\ gwResps' = Append(gwResps, ServerJsAfterChat(reply))
  /\ gwPc' = "responded"
  /\ UNCHANGED <<env, gwSrc, gwBody, gwProvider, gwCalls, clientVars, parserVars, pageVars, concVars, promptVars>>

\* the message a vendor supplied in its error body, if it did
VendorMessage(reply) ==
  IF reply.t # "json" THEN Undef
  ELSE IF reply.data.error.k = "str" THEN reply.data.error
  ELSE ErrorMessage(reply.data.error)

\* the strings the handler has written to the console for the request being
\* handled (lines 36-42, 139-143, 154 and 183): model names and messages
Logged ==
  (IF gwPc = "idle" THEN {} ELSE {gwBody.model})
  \cup { gwCalls[i].model : i \in {j \in 1..Len(gwCalls) : gwCalls[j].endpoint # "models"} }
  \cup { VendorMessage(gwReplies[i]).w :
           i \in {j \in 1..Len(gwReplies) :
                    /\ gwCalls[j].endpoint # "models"
                    /\ gwReplies[j].t = "json"
                    /\ ~gwReplies[j].ok
                    /\ VendorMessage(gwReplies[j]).k = "str"} }
  \cup { gwResps[i].body.error.w :
           i \in {j \in 1..Len(gwResps) :
                    gwResps[j].body.json /\ gwResps[j].body.error.k = "str"} }

\* ------------------------------------------------------------------------
\* Gateway: several requests at once
\* ------------------------------------------------------------------------
\* Each request runs its own call of the handler; request is req.body as it
\* was received and body is req.body as the handler has left it.
Handler(pc, request, body, provider, calls, replies, resps) ==
  [pc |-> pc, request |-> request, body |-> body, provider |-> provider,
   calls |-> calls, replies |-> replies, resps |-> resps]

IdleHandler ==
  Handler("idle", Body(Absent, << >>, 0, "none"), Body(Absent, << >>, 0, "none"),
          "openai", << >>, << >>, << >>)

RequestIds == 1..MaxRequests

\* bodies posted while another request is being handled
ConcurrentBodies ==
  { Body(CLAUDE3_SONNET, <<Message("system", "SYS"), Message("user", "PROMPT")>>,
         DefaultMaxTokens, "anthropic"),
    Body(CLAUDE3_OPUS, <<Message("system", "SYS"), Message("user", "PROMPT")>>,
         DefaultMaxTokens, "anthropic"),
    Body(GPT4, <<Message("system", "SYS"), Message("user", "PROMPT")>>,
         DefaultMaxTokens, "openai"),
    Body(GPT4, <<Message("user", "PROMPT")>>, 0, "none") }

\* a handler that keeps req and provider in module-level variables, which
\* the request received first has set
OwnShared(hs, r) == hs[1]

\* req, provider and the other locals of the call of the handler that
\* serves request r: each call of the arrow function has its own
Own(hs, r) == hs[r]

HandlerReceive(r) ==
  /\ handlers[r].pc = "idle"
  /\ \E body \in ConcurrentBodies : \E h \in Entries(body, env) :
       handlers' = [handlers EXCEPT ![r] =
         Handler(h.pc, body, body, ProviderOf(body), h.calls, << >>, h.resps)]
  /\ UNCHANGED <<env, gwVars, clientVars, parserVars, pageVars, promptVars>>

HandlerModelsReturn(r) ==
  /\ handlers[r].pc = "models"
  /\ \E reply \in ModelsReplies :
       handlers' = [handlers EXCEPT
         ![r].pc = "chat",
         ![r].replies = Append(@, reply),
         ![r].calls = Append(@, ChatCall(Own(handlers, r).provider,
                                         ApiKeyFor(Own(handlers, r).provider, env),
                                         Own(handlers, r).body))]
  /\ UNCHANGED <<env, gwVars, clientVars, parserVars, pageVars, promptVars>>

HandlerChatReturn(r) ==
  /\ handlers[r].pc = "chat"
  /\ \E reply \in ChatReplies(handlers[r].calls[Len(handlers[r].calls)].vendor) :
       handlers' = [handlers EXCEPT
         ![r].pc = "responded",
         ![r].replies = Append(@, reply),
         ![r].resps = Append(@, AfterChat(Own(handlers, r).provider, reply)),
         ![r].body = BodyAfterChat(Own(handlers, r).provider, reply, Own(handlers, r).body)]
  /\ UNCHANGED <<env, gwVars, clientVars, parserVars, pageVars, promptVars>>

\* the connection of request r is closed: nothing of it stays in the process
HandlerDone(r) ==
  /\ handlers[r].pc \in {"responded", "unhandled"}
  /\ handlers' = [handlers EXCEPT ![r] = IdleHandler]
  /\ UNCHANGED <<env, gwVars, clientVars, parserVars, pageVars, promptVars>>

HandlersIdle == handlers = [r \in RequestIds |-> IdleHandler]

\* ------------------------------------------------------------------------
\* Gateway: GET /api/config
\* ------------------------------------------------------------------------
\* `${key.substring(0, 3)}...${key.substring(key.length - 4)}`
ApiKeyHint(key) ==
  SubSeq(key, 1, IF Len(key) < 3 THEN Len(key) ELSE 3)
    \o <<".", ".", ".">>
    \o SubSeq(key, (IF Len(key) < 4 THEN 0 ELSE Len(key) - 4) + 1, Len(key))

\* a configuration answer that counts either key as the configured one
ConfigResponseAnyKey(e) ==
  [loaded |-> TRUE,
   apiKeyConfigured |-> e.OPENAI_API_KEY # NoKey \/ e.ANTHROPIC_API_KEY # NoKey,
   apiKeyHint |-> IF e.OPENAI_API_KEY # NoKey THEN Str(ApiKeyHint(e.OPENAI_API_KEY)) ELSE Null,
   model |-> IF e.OPENAI_MODEL = Absent THEN GPT4O ELSE e.OPENAI_MODEL]

\* res.json({apiKeyConfigured, apiKeyHint, model}); loaded marks a config
\* the client has received
ConfigResponse(e) ==
  [loaded |-> TRUE,
   apiKeyConfigured |-> e.OPENAI_API_KEY # NoKey,
   apiKeyHint |-> IF e.OPENAI_API_KEY # NoKey THEN Str(ApiKeyHint(e.OPENAI_API_KEY)) ELSE Null,
   model |-> IF e.OPENAI_MODEL = Absent THEN GPT4O ELSE e.OPENAI_MODEL]

\* ------------------------------------------------------------------------
\* Client: ApiService
\* ------------------------------------------------------------------------
retryCount == 3

\* this.config = null, and the config of the catch of _loadConfig
NullConfig == [loaded |-> FALSE, apiKeyConfigured |-> FALSE, apiKeyHint |-> Undef,
               model |-> Absent]
FailedConfig == [loaded |-> TRUE, apiKeyConfigured |-> FALSE, apiKeyHint |-> Undef,
                 model |-> Absent]

Operations == {"generateSolutions", "reframeProblem", "enhanceSolution",
               "processCustomPrompt"}

\* a derivation that looks for "claude" anywhere in the name
ClientProviderIncludes(m) == IF Includes(m, CLAUDE) THEN "anthropic" ELSE "openai"

\* provider: this.model.startsWith('claude') ? 'anthropic' : 'openai'
ClientProvider(m) == IF StartsWith(m, CLAUDE) THEN "anthropic" ELSE "openai"

\* the body of the fetch of _callOpenAI (lines 183-195)
RequestBody(m) ==
  Body(m, <<Message("system", "SYS"), Message("user", "PROMPT")>>,
       IF Includes(m, K16) THEN LargeMaxTokens ELSE DefaultMaxTokens,
       ClientProvider(m))

MSG_CLIENT_NOT_CONFIGURED == <<"OpenAI", "API", "key", "not", "configured.">>
MSG_API_ERROR == <<"OpenAI", "API", "error:">>

Pending == [state |-> "pending", value |-> Undef]
NotCompleted == [done |-> FALSE, thrown |-> FALSE, value |-> Undef]
Completed(r) == [done |-> TRUE, thrown |-> r.thrown, value |-> r.value]
Throw(e) == [thrown |-> TRUE, value |-> e]
Resolved(v) == [state |-> "resolved", value |-> v]
Rejected(e) == [state |-> "rejected", value |-> e]

\* what one attempt makes of the gateway's answer (lines 198-204): the
\* content it returns, or the error it throws
AttemptOutcome(resp) ==
  IF ~resp.body.json THEN Throw(Str(MSG_NOT_JSON))
  ELSE IF ~(resp.status \in 200..299)
  THEN Throw(Str(MSG_API_ERROR
                 \o OrElse(ErrorMessage(resp.body.error), Str(MSG_UNKNOWN)).w))
  ELSE IF resp.body.choices.k = "arr" /\ Len(resp.body.choices.items) >= 1
  THEN Returned(resp.body.choices.items[1].message.content)
  ELSE Throw(Str(MSG_TYPE_ERROR))

\* response.replace(..) and response.trim() need a string
List(items) == [k |-> "list", items |-> items]
Html(text) == [k |-> "html", text |-> text]
RECURSIVE TrimStart(_)
TrimStart(s) == IF s # << >> /\ Head(s) = "w" THEN TrimStart(Tail(s)) ELSE s
RECURSIVE TrimEnd(_)
TrimEnd(s) ==
  IF s # << >> /\ s[Len(s)] = "w" THEN TrimEnd(SubSeq(s, 1, Len(s) - 1)) ELSE s
Trim(s) == TrimEnd(TrimStart(s))

\* the rest of an operation once _callOpenAI has returned r (lines 86, 108,
\* 130, 152)
Settle(kind, r) ==
  CASE kind = "generateSolutions" -> Resolved(List(_parseSolutionsResponse(r).value))
    [] kind = "reframeProblem" -> Resolved(List(_parseReframingResponse(r).value))
    [] kind = "enhanceSolution" ->
         IF r.k = "str" THEN Resolved(Html(r.w)) ELSE Rejected(Str(MSG_TYPE_ERROR))
    [] kind = "processCustomPrompt" ->
         IF r.k = "str" THEN Resolved(Str(Trim(r.w))) ELSE Rejected(Str(MSG_TYPE_ERROR))

\* a backoff that does not grow with the attempt number
BackoffConstant(a) == 1

\* setTimeout(resolve, 1000 * (attempt + 1)), in seconds
Backoff(a) == a + 1

Attempt(body, waited, state) == [body |-> body, waited |-> waited, state |-> state]
SetLast(log, state) == [log EXCEPT ![Len(log)].state = state]

\* _loadConfig: the GET /api/config answer arrives
LoadConfig ==
  /\ cfgState = "loading"
  /\ cfgState' = "settled"
  /\ config' = ConfigResponse(env)
  /\ model' = IF ConfigResponse(env).model # Absent THEN ConfigResponse(env).model
              ELSE model
  /\ UNCHANGED <<env, gwVars, opPc, opKind, attempt, attempts, lastError,
                 callResult, opResult, wire, sleepLeft, slept, nSelect, parserVars, pageVars, concVars, promptVars>>

\* _loadConfig: the fetch fails or answers with a non-success status
LoadConfigFails ==
  /\ cfgState = "loading"
  /\ cfgState' = "settled"
  /\ config' = FailedConfig
  /\ UNCHANGED <<env, gwVars, model, opPc, opKind, attempt, attempts, lastError,
                 callResult, opResult, wire, sleepLeft, slept, nSelect, parserVars, pageVars, concVars, promptVars>>

\* the change handler of the model selector (lines 29-32)
SelectModel ==
  /\ nSelect < MaxSelect
  /\ \E m \in ModelNames : model' = m
  /\ nSelect' = nSelect + 1
  /\ UNCHANGED <<env, gwVars, cfgState, config, opPc, opKind, attempt, attempts,
                 lastError, callResult, opResult, wire, sleepLeft, slept, parserVars, pageVars, concVars, promptVars>>

\* an operation is invoked and awaits configPromise
StartOperation ==
  /\ opPc \in {"idle", "done"}
  /\ \E kind \in Operations : opKind' = kind
  /\ opPc' = "awaitConfig"
  /\ attempt' = 0
  /\ attempts' = << >>
  /\ lastError' = Undef
  /\ callResult' = NotCompleted
  /\ opResult' = Pending
  /\ UNCHANGED <<env, gwVars, cfgState, config, model, wire, sleepLeft, slept,
                 nSelect, parserVars, pageVars, concVars, promptVars>>

\* a check that only asks whether a config object is there
NotConfiguredNullOnly(cfg) == ~cfg.loaded

\* !this.config || !this.config.apiKeyConfigured (line 167)
NotConfigured(cfg) == ~cfg.loaded \/ ~cfg.apiKeyConfigured

\* _callOpenAI from its entry to its first fetch (lines 165-196)
CallOpenAI ==
  /\ opPc = "awaitConfig"
  /\ cfgState = "settled"
  /\ attempt' = 0
  /\ IF NotConfigured(config)
     THEN /\ callResult' = Completed(Throw(Str(MSG_CLIENT_NOT_CONFIGURED)))
          /\ opResult' = Rejected(Str(MSG_CLIENT_NOT_CONFIGURED))
          /\ opPc' = "done"
          /\ UNCHANGED <<attempts, wire>>
     ELSE /\ 0 < retryCount
          /\ attempts' = <<Attempt(RequestBody(model), 0, "inflight")>>
          /\ wire' = "request"
          /\ opPc' = "inflight"
          /\ UNCHANGED <<callResult, opResult>>
  /\ UNCHANGED <<env, gwVars, cfgState, config, model, opKind, lastError,
                 sleepLeft, slept, nSelect, parserVars, pageVars, concVars, promptVars>>

\* the request of the page reaches the gateway
GwReceiveClient ==
  /\ wire = "request"
  /\ GwEnter(attempts[Len(attempts)].body, "client")
  /\ wire' = "none"
  /\ UNCHANGED <<env, cfgState, config, model, opPc, opKind, attempt, attempts,
                 lastError, callResult, opResult, sleepLeft, slept, nSelect,
                 parserVars, pageVars, concVars, promptVars>>

\* the catch of the retry loop (lines 205-213)
Catch(error) ==
  /\ lastError' = error
  /\ attempts' = SetLast(attempts, "failed")
  /\ IF attempt < retryCount
     THEN /\ sleepLeft' = Backoff(attempt)
          /\ slept' = 0
          /\ opPc' = "sleeping"
          /\ UNCHANGED <<callResult, opResult>>
     ELSE /\ callResult' = Completed(Throw(error))
          /\ opResult' = Rejected(error)
          /\ opPc' = "done"
          /\ UNCHANGED <<sleepLeft, slept>>

\* the fetch of an attempt rejects: the request never reaches the gateway
FetchRejects ==
  /\ wire = "request"
  /\ wire' = "none"
  /\ Catch(Str(MSG_NETWORK))
  /\ UNCHANGED <<env, gwVars, cfgState, config, model, opKind, attempt,
                 nSelect, parserVars, pageVars, concVars, promptVars>>

\* the gateway's answer reaches the attempt in flight
ClientReceive ==
  /\ opPc = "inflight"
  /\ gwSrc = "client"
  /\ gwPc = "responded"
  /\ LET outcome == AttemptOutcome(gwResps[1])
     IN IF outcome.thrown
        THEN Catch(outcome.value)
        ELSE /\ attempts' = SetLast(attempts, "succeeded")
             /\ callResult' = Completed(Returned(outcome.value))
             /\ opResult' = Settle(opKind, outcome.value)
             /\ opPc' = "done"
             /\ UNCHANGED <<lastError, sleepLeft, slept>>
  /\ GwForget
  /\ UNCHANGED <<env, cfgState, config, model, opKind, attempt, wire, nSelect,
                 parserVars, pageVars, concVars, promptVars>>

\* one second of the backoff timer passes
Tick ==
  /\ opPc = "sleeping"
  /\ sleepLeft > 0
  /\ sleepLeft' = sleepLeft - 1
  /\ slept' = slept + 1
  /\ UNCHANGED <<env, gwVars, cfgState, config, model, opPc, opKind, attempt,
                 attempts, lastError, callResult, opResult, wire, nSelect, parserVars, pageVars, concVars, promptVars>>

\* the backoff timer fires: continue, attempt++ and the loop test; when the
\* loop ends the function falls off its end and returns undefined
Wake ==
  /\ opPc = "sleeping"
  /\ sleepLeft = 0
  /\ attempt' = attempt + 1
  /\ IF attempt + 1 < retryCount
     THEN /\ attempts' = Append(attempts, Attempt(RequestBody(model), slept, "inflight"))
          /\ wire' = "request"
          /\ opPc' = "inflight"
          /\ UNCHANGED <<callResult, opResult>>
     ELSE /\ callResult' = Completed(Returned(Undef))
          /\ opResult' = Settle(opKind, Undef)
          /\ opPc' = "done"
          /\ UNCHANGED <<attempts, wire>>
  /\ UNCHANGED <<env, gwVars, cfgState, config, model, opKind, lastError,
                 sleepLeft, slept, nSelect, parserVars, pageVars, concVars, promptVars>>

\* ------------------------------------------------------------------------
\* Prompt builders
\* ------------------------------------------------------------------------
\* A prompt is the sequence of its lines and a line a sequence of strings:
\* a line of the template is one string, the text of a field is a sequence
\* of characters, "w" a whitespace character and "a" any other.  Absent is
\* the value of a field whose element is not on the page.
FieldChars == {"w", "a"}
FieldNames3 == {"stakeholders", "rootCauses", "impactAssessment"}

\* a builder that does not trim the value of a field
FieldTextUntrimmed(v) == IF v = Absent THEN << >> ELSE v

\* document.getElementById(..)?.value.trim(); undefined, like '', is false
FieldText(v) == IF v = Absent THEN << >> ELSE Trim(v)

\* `\nHeading\n${text}\nFollow-up` when the text is not empty, '' when it
\* is: the lines this puts on the template line it stands on
Section(heading, text, followUp) ==
  IF text # << >> THEN << << >>, <<heading>>, text, <<followUp>> >> ELSE << << >> >>

\* `Additional Context: ${context}` or ''
ContextLine(context) ==
  IF context # << >> THEN <<"Additional Context:">> \o context ELSE << >>

SolutionHeading(f) ==
  CASE f = "stakeholders" -> "Stakeholders Analysis:"
    [] f = "rootCauses" -> "Root Causes Identified:"
    [] f = "impactAssessment" -> "Impact Assessment:"

SolutionFollowUp(f) ==
  CASE f = "stakeholders" -> "Consider how each solution impacts these stakeholders."
    [] f = "rootCauses" -> "Ensure solutions address these underlying causes."
    [] f = "impactAssessment" ->
         "Propose solutions that minimize negative impacts and maximize positive ones."

ReframingHeading(f) ==
  CASE f = "stakeholders" -> "Stakeholders Involved:"
    [] f = "rootCauses" -> "Underlying Root Causes:"
    [] f = "impactAssessment" -> "Current Impact Analysis:"

ReframingFollowUp(f) ==
  CASE f = "stakeholders" -> "Consider their perspectives in reframing."
    [] f = "rootCauses" -> "Use these insights to challenge assumptions."
    [] f = "impactAssessment" -> "Consider both positive and negative implications."

\* _buildSolutionPrompt (lines 226-263)
_buildSolutionPrompt(fs) ==
  << <<"At timestamp ${timestamp}, generate 3 completely new and innovative solutions">>,
     << >>,
     <<"Problem: ${problem}">>,
     <<"Domain: ${domain}">>,
     <<"Complexity: ${complexity}/5">>,
     ContextLine(fs.context) >>
  \o Section(SolutionHeading("stakeholders"), FieldText(fs.stakeholders),
             SolutionFollowUp("stakeholders"))
  \o Section(SolutionHeading("rootCauses"), FieldText(fs.rootCauses),
             SolutionFollowUp("rootCauses"))
  \o Section(SolutionHeading("impactAssessment"), FieldText(fs.impactAssessment),
             SolutionFollowUp("impactAssessment"))
  \o << << >>,
        <<"Considering ALL provided context above, for each solution provide:">>,
        <<"Format your response as a JSON array">> >>

\* _buildReframingPrompt (lines 273-304)
_buildReframingPrompt(fs) ==
  << <<"Given this problem and timestamp ${timestamp}, generate 3 perspective shifts">>,
     << >>,
     <<"Problem: ${problem}">>,
     <<"Domain: ${domain}">>,
     ContextLine(fs.context) >>
  \o Section(ReframingHeading("stakeholders"), FieldText(fs.stakeholders),
             ReframingFollowUp("stakeholders"))
  \o Section(ReframingHeading("rootCauses"), FieldText(fs.rootCauses),
             ReframingFollowUp("rootCauses"))
  \o Section(ReframingHeading("impactAssessment"), FieldText(fs.impactAssessment),
             ReframingFollowUp("impactAssessment"))
  \o << << >>,
        <<"Leverage ALL the context above to use exactly one of these approaches">>,
        <<"Format response as JSON array with 3 strings">> >>

FieldValues == {Absent} \cup UNION {[1..len -> FieldChars] : len \in 0..MaxField}

NoFields == [stakeholders |-> Absent, rootCauses |-> Absent, impactAssessment |-> Absent,
             context |-> << >>]
NoPrompt == <<"<", "none", ">">>
NoPrompts == [solution |-> NoPrompt, reframing |-> NoPrompt]

PromptIdle ==
  /\ fields = NoFields
  /\ prompts = NoPrompts

\* generateSolutions builds its prompt (line 82)
BuildSolutionPrompt ==
  /\ prompts.solution = NoPrompt
  /\ prompts' = [prompts EXCEPT !.solution = _buildSolutionPrompt(fields)]
  /\ UNCHANGED <<env, gwVars, clientVars, parserVars, pageVars, concVars, fields>>

\* reframeProblem builds its prompt (line 104)
BuildReframingPrompt ==
  /\ prompts.reframing = NoPrompt
  /\ prompts' = [prompts EXCEPT !.reframing = _buildReframingPrompt(fields)]
  /\ UNCHANGED <<env, gwVars, clientVars, parserVars, pageVars, concVars, fields>>

\* ------------------------------------------------------------------------
\* Page: operations invoked while others are pending
\* ------------------------------------------------------------------------
\* An invocation is one call of generateSolutions, reframeProblem,
\* enhanceSolution or processCustomPrompt whose promise has not settled.
Invocation(kind, pc, a) == [kind |-> kind, pc |-> pc, attempt |-> a]

Remove(seq, i) == SubSeq(seq, 1, i - 1) \o SubSeq(seq, i + 1, Len(seq))

\* a page on which every action can be triggered at any time
ActionAvailableAlways(kind, invs) == TRUE

\* the page offers an action only while no invocation of its type is pending
ActionAvailable(kind, invs) == \A i \in 1..Len(invs) : invs[i].kind # kind

\* a UI action invokes its operation, which awaits configPromise
InvokeOperation ==
  /\ Len(invocations) < MaxInvocations
  /\ \E kind \in Operations :
       /\ ActionAvailable(kind, invocations)
       /\ invocations' = Append(invocations, Invocation(kind, "awaitConfig", 0))
  /\ UNCHANGED <<env, gwVars, clientVars, parserVars, concVars, promptVars>>

\* _callOpenAI from its entry to its first fetch (lines 165-196)
IssueFirstAttempt ==
  /\ cfgState = "settled"
  /\ \E i \in 1..Len(invocations) :
       /\ invocations[i].pc = "awaitConfig"
       /\ IF ~config.loaded \/ ~config.apiKeyConfigured
          THEN invocations' = Remove(invocations, i)
          ELSE invocations' = [invocations EXCEPT ![i].pc = "inflight"]
  /\ UNCHANGED <<env, gwVars, clientVars, parserVars, concVars, promptVars>>

\* the fetch of an attempt settles: the operation returns, or the catch of
\* the retry loop starts the backoff timer (lines 198-210)
AttemptSettles ==
  /\ \E i \in 1..Len(invocations) :
       /\ invocations[i].pc = "inflight"
       /\ \/ invocations' = Remove(invocations, i)
          \/ /\ invocations[i].attempt < retryCount
             /\ invocations' = [invocations EXCEPT ![i].pc = "sleeping"]
  /\ UNCHANGED <<env, gwVars, clientVars, parserVars, concVars, promptVars>>

\* the backoff timer fires: attempt++ and the loop test (lines 176, 210)
BackoffElapsed ==
  /\ \E i \in 1..Len(invocations) :
       /\ invocations[i].pc = "sleeping"
       /\ IF invocations[i].attempt + 1 < retryCount
          THEN invocations' = [invocations EXCEPT ![i].pc = "inflight",
                                                 ![i].attempt = @ + 1]
          ELSE invocations' = Remove(invocations, i)
  /\ UNCHANGED <<env, gwVars, clientVars, parserVars, concVars, promptVars>>

PageIdle == invocations = << >>

\* ------------------------------------------------------------------------
\* The parsers applied to an input
\* ------------------------------------------------------------------------
SeqsUpTo(S, n) == UNION {[1..len -> S] : len \in 0..n}

\* valid JSON arrays of solution-shaped objects, with their elements
EmbeddedArrays ==
  { [toks |-> <<"[", "]">>, elems |-> << >>],
    [toks |-> <<"[", "oX", "]">>, elems |-> <<"oX">>],
    [toks |-> <<"[", "oF", ",", "w", "oX", "]">>, elems |-> <<"oF", "oX">>],
    [toks |-> <<"[", "w", "oX", ",", "oX", ",", "oF", "]">>, elems |-> <<"oX", "oX", "oF">>],
    [toks |-> <<"[", "oX", ",", "oN", "]">>, elems |-> <<"oX", "oN">>],
    [toks |-> <<"[", "oE", "]">>, elems |-> <<"oE">>] }

\* valid JSON arrays of statements, with their elements
StatementArrays ==
  { [toks |-> <<"[", "s", ",", "s", ",", "s", "]">>, elems |-> <<"s", "s", "s">>],
    [toks |-> <<"[", "s", ",", "w", "s", "]">>, elems |-> <<"s", "s">>] }

NoParts == [embedded |-> FALSE, pre |-> << >>, elems |-> << >>, post |-> << >>]
NotRun == [run |-> FALSE, thrown |-> FALSE, value |-> Undef]
Ran(r) == [run |-> TRUE, thrown |-> r.thrown, value |-> r.value]

\* inputs that are not strings
NonStrings ==
  { Undef, Null, Num, ResponseObject(Undef) }
  \cup { ResponseObject(Str(t)) : t \in {TXT_PROSE, TXT_ARRAY, <<"oX">>} }

ParserIdle ==
  /\ response = Undef
  /\ parts = NoParts
  /\ solutions = NotRun
  /\ reframes = NotRun

ParseSolutions ==
  /\ ~solutions.run
  /\ solutions' = Ran(_parseSolutionsResponse(response))
  /\ UNCHANGED <<env, gwVars, clientVars, response, parts, reframes, pageVars, concVars, promptVars>>

ParseReframing ==
  /\ ~reframes.run
  /\ reframes' = Ran(_parseReframingResponse(response))
  /\ UNCHANGED <<env, gwVars, clientVars, response, parts, solutions, pageVars, concVars, promptVars>>

\* ------------------------------------------------------------------------
\* Specifications
\* ------------------------------------------------------------------------
InitGateway ==
  /\ gwPc = "idle"
  /\ gwSrc = "none"
  /\ gwBody = Body(Absent, << >>, 0, "none")
  /\ gwProvider = "openai"
  /\ gwCalls = << >>
  /\ gwReplies = << >>
  /\ gwResps = << >>

\* the state after new ApiService(): the config fetch is in flight
InitClient ==
  /\ cfgState = "loading"
  /\ config = NullConfig
  /\ model = GPT4
  /\ opPc = "idle"
  /\ opKind = "generateSolutions"
  /\ attempt = 0
  /\ attempts = << >>
  /\ lastError = Undef
  /\ callResult = NotCompleted
  /\ opResult = Pending
  /\ wire = "none"
  /\ sleepLeft = 0
  /\ slept = 0
  /\ nSelect = 0

Init ==
  /\ env \in EnvSet
  /\ InitGateway
  /\ InitClient
  /\ ParserIdle
  /\ PageIdle
  /\ HandlersIdle
  /\ PromptIdle

Next ==
  \/ GwReceiveBare
  \/ GwReceiveClient
  \/ GwModelsReturn
  \/ GwChatReturn
  \/ GwDirectDone
  \/ LoadConfig
  \/ LoadConfigFails
  \/ SelectModel
  \/ StartOperation
  \/ CallOpenAI
  \/ FetchRejects
  \/ ClientReceive
  \/ Tick
  \/ Wake

Spec == Init /\ [][Next]_vars

\* the gateway alone, under every posted request of the bounded set
NextGateway ==
  \/ GwReceiveDirect
  \/ GwModelsReturn
  \/ GwChatReturn
  \/ GwDirectDone

SpecGateway == Init /\ [][NextGateway]_vars

\* the gateway when every call it makes to a vendor eventually settles
SpecGatewayFair ==
  SpecGateway /\ WF_vars(GwModelsReturn) /\ WF_vars(GwChatReturn)

\* the server of the second half of server.js, under every posted request
\* of the bounded set
NextServerJs ==
  \/ ServerJsReceive
  \/ ServerJsChatReturn
  \/ GwDirectDone

SpecServerJs == Init /\ [][NextServerJs]_vars

\* the parsers applied to every input of the bounded sets
InitParse ==
  /\ env = [OPENAI_API_KEY |-> OpenAIKey, ANTHROPIC_API_KEY |-> AnthropicKey,
            OPENAI_MODEL |-> Absent]
  /\ InitGateway
  /\ InitClient
  /\ PageIdle
  /\ HandlersIdle
  /\ PromptIdle
  /\ solutions = NotRun
  /\ reframes = NotRun
  /\ \/ /\ response \in {Str(t) : t \in SeqsUpTo(Tokens, MaxLen)} \cup NonStrings
        /\ parts = NoParts
     \/ \E pre \in SeqsUpTo(Tokens, MaxProse), post \in SeqsUpTo(Tokens, MaxProse),
           a \in EmbeddedArrays \cup StatementArrays :
          /\ response = Str(pre \o a.toks \o post)
          /\ parts = [embedded |-> TRUE, pre |-> pre, elems |-> a.elems, post |-> post]

NextParse == ParseSolutions \/ ParseReframing

SpecParse == InitParse /\ [][NextParse]_vars

\* the page with operations of several types pending at once
InitPage ==
  /\ env \in {e \in EnvSet : e.ANTHROPIC_API_KEY = NoKey /\ e.OPENAI_MODEL = Absent}
  /\ InitGateway
  /\ InitClient
  /\ ParserIdle
  /\ PageIdle
  /\ HandlersIdle
  /\ PromptIdle

NextPage ==
  \/ LoadConfig
  \/ LoadConfigFails
  \/ InvokeOperation
  \/ IssueFirstAttempt
  \/ AttemptSettles
  \/ BackoffElapsed

SpecPage == InitPage /\ [][NextPage]_vars

\* the gateway handling several requests at once
InitConcurrent ==
  /\ env \in {e \in EnvSet : e.OPENAI_API_KEY = OpenAIKey /\ e.OPENAI_MODEL = Absent}
  /\ InitGateway
  /\ InitClient
  /\ ParserIdle
  /\ PageIdle
  /\ HandlersIdle
  /\ PromptIdle

NextConcurrent ==
  \E r \in RequestIds :
    \/ HandlerReceive(r)
    \/ HandlerModelsReturn(r)
    \/ HandlerChatReturn(r)
    \/ HandlerDone(r)

SpecConcurrent == InitConcurrent /\ [][NextConcurrent]_vars

\* the prompt builders applied to every filling of the optional fields
InitPrompt ==
  /\ env = [OPENAI_API_KEY |-> OpenAIKey, ANTHROPIC_API_KEY |-> AnthropicKey,
            OPENAI_MODEL |-> Absent]
  /\ InitGateway
  /\ InitClient
  /\ ParserIdle
  /\ PageIdle
  /\ HandlersIdle
  /\ fields \in [stakeholders : FieldValues, rootCauses : FieldValues,
                  impactAssessment : FieldValues, context : {<< >>, <<"a">>}]
  /\ prompts = NoPrompts

NextPrompt == BuildSolutionPrompt \/ BuildReframingPrompt

SpecPrompt == InitPrompt /\ [][NextPrompt]_vars

\* ------------------------------------------------------------------------
\* Properties
\* ------------------------------------------------------------------------
\* the request being handled has seen its Anthropic chat call fail with a
\* message that contains "credit balance"
CreditFailureAt(i) ==
  /\ i <= Len(gwReplies)
  /\ gwCalls[i].vendor = "anthropic"
  /\ gwCalls[i].endpoint = "messages"
  /\ gwReplies[i].t = "json"
  /\ ~gwReplies[i].ok
  /\ ErrorMessage(gwReplies[i].data.error).k = "str"
  /\ Includes(ErrorMessage(gwReplies[i].data.error).w, <<"credit", "balance">>)

\* C1: when the Anthropic call of a request with provider 'anthropic' fails
\* with a message containing "credit balance", the gateway makes exactly one
\* further vendor call, to OpenAI with model "gpt-4", and the response sent
\* is the result of that call (stated for a configured OpenAI key).
C1_CreditFallbackCallsOpenAI ==
  \A i \in 1..Len(gwCalls) :
    (gwPc = "responded" /\ CreditFailureAt(i) /\ env.OPENAI_API_KEY # << >>) =>
      /\ Len(gwCalls) = i + 1
      /\ Len(gwReplies) = i + 1
      /\ gwCalls[i + 1].vendor = "openai"
      /\ gwCalls[i + 1].endpoint = "chat"
      /\ gwCalls[i + 1].model = GPT4
      /\ gwResps = <<AfterChat("openai", gwReplies[i + 1])>>

AllAttemptsFailed ==
  /\ attempts # << >>
  /\ \A i \in 1..Len(attempts) : attempts[i].state = "failed"

\* C2: when every attempt of _callOpenAI has failed, the call completes by
\* throwing the error of the final attempt, unmodified; it never completes
\* normally.
C2_FinalErrorRethrown ==
  (callResult.done /\ AllAttemptsFailed) =>
    (callResult.thrown /\ callResult.value = lastError)

\* C3: one call of _callOpenAI issues at most 3 requests, one after another:
\* attempt n+1 is issued only after attempt n has failed and n seconds of
\* backoff have passed, at most one attempt is in flight, and no attempt
\* follows a successful one.
C3_SequentialAttemptsWithBackoff ==
  /\ Len(attempts) <= 3
  /\ Cardinality({i \in 1..Len(attempts) : attempts[i].state = "inflight"}) <= 1
  /\ \A i \in 1..(Len(attempts) - 1) :
       /\ attempts[i].state = "failed"
       /\ attempts[i + 1].waited >= i

\* a third attempt is in flight, after two failed ones
C3_Witness ==
  /\ Len(attempts) = 3
  /\ attempts[3].state = "inflight"
  /\ attempts[3].waited = 2

\* C4: when the key of the requested vendor is absent, POST /api/openai
\* responds with status 500 and {error: "<VENDOR> API key not configured"}
\* and makes no outbound call.
C4_MissingKeyIsReported ==
  (gwPc \in {"responded", "unhandled"}
     /\ (IF gwProvider = "anthropic" THEN env.ANTHROPIC_API_KEY
         ELSE env.OPENAI_API_KEY) = << >>) =>
    /\ gwCalls = << >>
    /\ Len(gwResps) = 1
    /\ gwResps[1].status = 500
    /\ gwResps[1].body.json
    /\ gwResps[1].body.error =
         Str(<<IF gwProvider = "anthropic" THEN "ANTHROPIC" ELSE "OPENAI",
               "API", "key", "not", "configured">>)

\* the text of a vendor's successful reply
ReplyText(provider, reply) ==
  IF provider = "anthropic" THEN reply.data.content.items[1].text
  ELSE reply.data.choices.items[1].message.content

\* C5: every successful response of the gateway has the shape
\* {choices:[{message:{content}}]} with content the reply text: an Anthropic
\* reply is rewrapped into it, an OpenAI reply is passed on unchanged.
C5_SuccessEnvelope ==
  \A i \in 1..Len(gwResps) :
    gwResps[i].status \in 200..299 =>
      /\ gwResps[i].body.json
      /\ gwResps[i].body.choices.k = "arr"
      /\ Len(gwResps[i].body.choices.items) >= 1
      /\ gwResps[i].body.choices.items[1].message.content.k = "str"
      /\ gwResps[i].body.choices.items[1].message.content
           = ReplyText(gwProvider, gwReplies[Len(gwReplies)])
      /\ gwProvider # "anthropic" => gwResps[i].body = gwReplies[Len(gwReplies)].data

\* a successful Anthropic reply has been answered
C5_Witness ==
  /\ gwPc = "responded"
  /\ gwProvider = "anthropic"
  /\ Len(gwResps) = 1
  /\ gwResps[1].status = 200
  /\ gwReplies[Len(gwReplies)].data.content.k = "arr"

\* C6: a request of the page reaches Anthropic if and only if its model
\* string begins with "claude", every other model reaches OpenAI, and so
\* does a request without a provider field.
C6_RoutingByModelPrefix ==
  \A i \in 1..Len(gwCalls) :
    /\ gwSrc = "client" =>
         LET m == attempts[Len(attempts)].body.model
         IN /\ gwCalls[i].vendor \in {"anthropic", "openai"}
            /\ gwCalls[i].vendor = "anthropic" <=>
                 (Len(m) >= 6 /\ SubSeq(m, 1, 6) = <<"c", "l", "a", "u", "d", "e">>)
    /\ (gwSrc = "direct" /\ gwBody.provider = "none") => gwCalls[i].vendor = "openai"

\* a page request for a model that begins with "claude" is at Anthropic
C6_Witness ==
  /\ gwSrc = "client"
  /\ gwPc = "chat"
  /\ attempts[Len(attempts)].body.model = CLAUDE_HAIKU_SONNET
  /\ gwCalls[Len(gwCalls)].vendor = "anthropic"

\* the dated identifier the claim gives for each model name
DatedIdentifier(m) ==
  CASE m \in {CLAUDE3_OPUS, CLAUDE_SONNET_OPUS, CAP_CLAUDE3_OPUS} -> OPUS_DATED
    [] m \in {CLAUDE3_SONNET, CLAUDE_HAIKU_SONNET} -> SONNET_DATED
    [] m = CLAUDE3_HAIKU -> HAIKU_DATED
    [] OTHER -> m

\* C7: on the Anthropic path the model sent is the dated identifier of the
\* alias in the requested name (opus before sonnet before haiku), and a
\* name without an alias is sent unchanged.
C7_AnthropicModelMapping ==
  (gwPc = "chat" /\ gwProvider = "anthropic") =>
    /\ gwCalls[Len(gwCalls)].endpoint = "messages"
    /\ gwCalls[Len(gwCalls)].model = DatedIdentifier(gwBody.model)

\* "claude-3-opus" is on its way to Anthropic as "claude-3-opus-20240229"
C7_Witness ==
  /\ gwPc = "chat"
  /\ gwProvider = "anthropic"
  /\ gwBody.model = CLAUDE3_OPUS
  /\ gwCalls[Len(gwCalls)].model = OPUS_DATED

\* a value a parser returned is a collection
IsCollection(r) == ~r.thrown /\ DOMAIN r.value = 1..Len(r.value)

\* C8: the response parsers never raise: for every input (text that is not
\* JSON, JSON that is not an array, arrays with non-object elements, inputs
\* that are not strings) they return a collection.
C8_ParsersNeverRaise ==
  /\ solutions.run => IsCollection(solutions)
  /\ reframes.run => IsCollection(reframes)

\* both parsers have returned for an array whose element is null, on which
\* the normalisation throws
C8_Witness ==
  /\ response = Str(<<"[", "null", "]">>)
  /\ solutions.run
  /\ reframes.run
  /\ Len(solutions.value) = 1

\* the normalized record of an element of an embedded array, i its 1-based
\* position (C11 settles what becomes of a field that is present and empty)
ExpectedSolution(tok, i) ==
  CASE tok = "oX" ->
         [title |-> Str(<<"X">>), description |-> Str(<< >>), content |-> Str(<< >>),
          icon |-> Str(<<"fas fa-lightbulb">>), isAI |-> TRUE]
    [] tok = "oF" ->
         [title |-> Str(<<"T">>), description |-> Str(<<"D">>), content |-> Str(<<"C">>),
          icon |-> Str(<<"fas fa-brain">>), isAI |-> TRUE]
    [] tok = "oN" ->
         [title |-> Str(<<"Solution", ToString(i)>>), description |-> Str(<<"D">>),
          content |-> Str(<< >>), icon |-> Str(<<"fas fa-lightbulb">>), isAI |-> TRUE]
    [] tok = "oE" ->
         [title |-> Str(<<"Solution", ToString(i)>>), description |-> Str(<< >>),
          content |-> Str(<<"C">>), icon |-> Str(<<"fas fa-lightbulb">>), isAI |-> TRUE]

\* the embedded array is one of solution-shaped objects
SolutionShaped ==
  \A i \in 1..Len(parts.elems) : parts.elems[i] \in {"oX", "oF", "oN", "oE"}

ExtractedExactly ==
  /\ ~solutions.thrown
  /\ Len(solutions.value) = Len(parts.elems)
  /\ \A i \in 1..Len(parts.elems) :
       solutions.value[i] = ExpectedSolution(parts.elems[i], i)

\* C9 as claimed: for every valid JSON array of solution-shaped objects
\* embedded in a text, whatever the prose before and after it (prose with
\* "[" or "]" included), the solutions parser returns one normalized record
\* per element of that array, in order.
C9_ExtractsEmbeddedArray ==
  (solutions.run /\ parts.embedded /\ SolutionShaped) => ExtractedExactly

HasToken(s, tok) == \E i \in 1..Len(s) : s[i] = tok

\* the whole text is itself a JSON document that is not an array
WholeTextIsOtherJSON ==
  /\ JSONParseText(response.w).ok
  /\ JSONParseText(response.w).v.k # "arr"

\* C9 as amended: the same, for prose before the array that contains no "["
\* and prose after it that contains no "]", in a text that is not as a whole
\* a JSON document of another kind.
C9_ExtractsWhenProseHasNoBrackets ==
  (solutions.run /\ parts.embedded /\ SolutionShaped
     /\ ~HasToken(parts.pre, "[") /\ ~HasToken(parts.post, "]")
     /\ ~WholeTextIsOtherJSON) => ExtractedExactly

\* a two-element array with prose on both sides has been parsed
C9_Witness ==
  /\ solutions.run
  /\ parts.embedded
  /\ parts.pre = <<"p">>
  /\ parts.post = <<"p">>
  /\ parts.elems = <<"oF", "oX">>
  /\ Len(solutions.value) = 2

\* no "[" is followed, anywhere later in the text, by a "]"
NoBracketSpan(s) ==
  ~\E i \in 1..Len(s), j \in 1..Len(s) : i < j /\ s[i] = "[" /\ s[j] = "]"

\* C10: for every text without a "[" ... "]" span the solutions parser
\* returns exactly one synthetic record (title "AI Solution Approach",
\* content the raw text, icon 'fas fa-robot') and the reframing parser a
\* one-element sequence holding the raw text; neither raises.
C10_FallbackWithoutBracketSpan ==
  (response.k = "str" /\ NoBracketSpan(response.w)) =>
    /\ solutions.run =>
         /\ ~solutions.thrown
         /\ Len(solutions.value) = 1
         /\ solutions.value[1].title = Str(<<"AI Solution Approach">>)
         /\ solutions.value[1].content = response
         /\ solutions.value[1].icon = Str(<<"fas fa-robot">>)
    /\ reframes.run =>
         /\ ~reframes.thrown
         /\ reframes.value = <<response>>

\* both parsers have returned for a text that is valid JSON and has no
\* bracket at all
C10_Witness ==
  /\ response = Str(<<"w", "oX">>)
  /\ solutions.run
  /\ reframes.run
  /\ Len(reframes.value) = 1

\* the text holds an embedded array that the parser extracts (C9)
ArrayIsParsed ==
  /\ solutions.run
  /\ parts.embedded
  /\ SolutionShaped
  /\ ~HasToken(parts.pre, "[")
  /\ ~HasToken(parts.post, "]")
  /\ ~WholeTextIsOtherJSON

\* the fields of the object a token stands for, as given in the text
Given(tok) ==
  CASE tok = "oX" -> [title |-> Str(<<"X">>), description |-> Undef, content |-> Undef,
                      icon |-> Undef]
    [] tok = "oF" -> [title |-> Str(<<"T">>), description |-> Str(<<"D">>),
                      content |-> Str(<<"C">>), icon |-> Str(<<"fas fa-brain">>)]
    [] tok = "oN" -> [title |-> Undef, description |-> Str(<<"D">>), content |-> Undef,
                      icon |-> Undef]
    [] tok = "oE" -> [title |-> Str(<< >>), description |-> Undef,
                      content |-> Str(<<"C">>), icon |-> Str(<< >>)]

DefaultFields(i) ==
  [title |-> Str(<<"Solution", ToString(i)>>), description |-> Str(<< >>),
   content |-> Str(<< >>), icon |-> Str(<<"fas fa-lightbulb">>)]

FieldNames == {"title", "description", "content", "icon"}

\* every element of the parsed array has become a record of exactly title,
\* description, content, icon and isAI, with isAI true and each other field
\* the given one where Kept(given) holds and the default where it does not
NormalizedBy(Kept(_)) ==
  /\ ~solutions.thrown
  /\ Len(solutions.value) = Len(parts.elems)
  /\ \A i \in 1..Len(parts.elems) :
       /\ DOMAIN solutions.value[i] = FieldNames \cup {"isAI"}
       /\ solutions.value[i].isAI = TRUE
       /\ \A f \in FieldNames :
            solutions.value[i][f] =
              IF Kept(Given(parts.elems[i])[f]) THEN Given(parts.elems[i])[f]
              ELSE DefaultFields(i)[f]

IsPresent(x) == x.k # "undef"
IsNonEmpty(x) == x.k = "str" /\ x.w # << >>

\* C11 as claimed: every solution object parsed from the text is normalized
\* to exactly title, description, content, icon, isAI: a missing title
\* becomes "Solution N" (N the 1-based position), a missing description or
\* content the empty string, a missing icon 'fas fa-lightbulb', every
\* present field is kept as given, and isAI is true.
C11_PresentFieldsKept ==
  ArrayIsParsed => NormalizedBy(IsPresent)

\* C11 as amended: the same, where the fields kept as given are the present
\* fields that are not empty; a field that is present and empty gets the
\* default of a missing one.
C11_NonEmptyFieldsKept ==
  ArrayIsParsed => NormalizedBy(IsNonEmpty)

\* an object without a title, second in its array, has become "Solution 2"
C11_Witness ==
  /\ ArrayIsParsed
  /\ parts.pre = <<"p">>
  /\ parts.elems = <<"oX", "oN">>
  /\ solutions.value[2].title = Str(<<"Solution", "2">>)
  /\ solutions.value[2].description = Str(<<"D">>)

\* the chat call of the request being handled was answered with a
\* non-success status, and not in the Anthropic insufficient-credit case
VendorErrorAt(i) ==
  /\ i = Len(gwReplies)
  /\ gwCalls[i].endpoint \in {"chat", "messages"}
  /\ gwReplies[i].t # "reject"
  /\ ~gwReplies[i].ok
  /\ ~CreditFailureAt(i)

\* C12: when the vendor's chat call returns a non-success status that is
\* not the Anthropic insufficient-credit case, the gateway responds with the
\* vendor's HTTP status and a body {error, detail} that contains the message
\* the vendor supplied.
C12_VendorErrorPropagated ==
  \A i \in 1..Len(gwCalls) :
    (gwPc = "responded" /\ VendorErrorAt(i)) =>
      /\ Len(gwResps) = 1
      /\ gwResps[1].status = gwReplies[i].status
      /\ gwResps[1].body.json
      /\ gwResps[1].body.error # Undef
      /\ gwResps[1].body.detail # Undef
      /\ VendorMessage(gwReplies[i]) # Undef =>
           \/ gwResps[1].body.detail = VendorMessage(gwReplies[i])
           \/ gwResps[1].body.error = VendorMessage(gwReplies[i])

\* the same, for a vendor whose error body is JSON
C12_JsonVendorErrorPropagated ==
  \A i \in 1..Len(gwCalls) :
    (gwPc = "responded" /\ VendorErrorAt(i) /\ gwReplies[i].t = "json") =>
      /\ gwResps[1].status = gwReplies[i].status
      /\ gwResps[1].body.error # Undef
      /\ gwResps[1].body.detail # Undef

\* the normalized success envelope {choices:[{message:{content}}]}
IsSuccessEnvelope(resp) ==
  /\ resp.status \in 200..299
  /\ resp.body.json
  /\ resp.body.choices.k = "arr"
  /\ Len(resp.body.choices.items) >= 1

\* a body {error, detail?} sent with an error status
IsErrorBody(resp) ==
  /\ resp.status \in 400..599
  /\ resp.body.json
  /\ resp.body.error # Undef

\* C13: every POST /api/openai request, whatever its body (a messages list
\* with fewer than two entries included) and whatever the vendor does,
\* receives exactly one response, which is the normalized success envelope
\* or an {error, detail?} body with an error status.
C13_ExactlyOneResponse ==
  gwPc \in {"responded", "unhandled"} =>
    /\ Len(gwResps) = 1
    /\ IsSuccessEnvelope(gwResps[1]) \/ IsErrorBody(gwResps[1])

\* C14: every failure of a client operation (a configuration error, or a
\* vendor or transport error that persists through all attempts) reaches
\* the caller as a rejection carrying a message string; an operation whose
\* every attempt failed never resolves with a result.
C14_FailureIsRejection ==
  (opPc = "done" /\ (attempts = << >> \/ AllAttemptsFailed)) =>
    /\ opResult.state = "rejected"
    /\ opResult.value.k = "str"

\* the key of the vendor the operation was routed to is absent
SelectedKeyAbsent ==
  \A i \in 1..Len(attempts) : ApiKeyFor(attempts[i].body.provider, env) = NoKey

SaysNotConfigured(msg) ==
  \E i \in 1..(Len(msg) - 1) :
    msg[i] = "not" /\ msg[i + 1] \in {"configured", "configured."}

\* C15: whenever the key of the vendor a request is routed to (OpenAI or
\* Anthropic) is absent, the client operation is rejected with a message
\* that says the key is not configured (stated for an operation whose last
\* request was answered, not lost in transport).
C15_MissingKeySurfaced ==
  (opPc = "done" /\ SelectedKeyAbsent /\ lastError # Str(MSG_NETWORK)) =>
    /\ opResult.state = "rejected"
    /\ opResult.value.k = "str"
    /\ SaysNotConfigured(opResult.value.w)

\* the keys the process is configured with
ConfiguredKeys == {env.OPENAI_API_KEY, env.ANTHROPIC_API_KEY} \ {NoKey}

\* the strings of a response body of the gateway
BodyStrings(resp) ==
  { x.w : x \in { y \in {resp.body.error, resp.body.detail, ErrorMessage(resp.body.error)} :
                    y.k = "str" } }

\* C16: the API key never reaches the frontend or the logs: for every
\* configured key, of any length, the apiKeyHint of GET /api/config is the
\* first 3 and the last 4 characters around "...", the full key cannot be
\* read from it, and no response body and no log entry of the gateway
\* contains a key.
C16_KeyNeverDisclosed ==
  /\ (config.loaded /\ config.apiKeyHint.k = "str") =>
       LET key == env.OPENAI_API_KEY
           hint == config.apiKeyHint.w
       IN /\ Len(hint) - 3 < Len(key)
          /\ ~Includes(hint, key)
  /\ \A key \in ConfiguredKeys :
       /\ \A i \in 1..Len(gwResps) : \A str \in BodyStrings(gwResps[i]) : ~Includes(str, key)
       /\ \A str \in Logged : ~Includes(str, key)

\* the same, for keys of more than 7 characters
C16_LongKeyNeverDisclosed ==
  /\ (config.loaded /\ config.apiKeyHint.k = "str" /\ Len(env.OPENAI_API_KEY) > 7) =>
       LET key == env.OPENAI_API_KEY
           hint == config.apiKeyHint.w
       IN /\ Len(hint) - 3 < Len(key)
          /\ ~Includes(hint, key)
          /\ hint = SubSeq(key, 1, 3) \o <<".", ".", ".">> \o SubSeq(key, Len(key) - 3, Len(key))
  /\ \A key \in ConfiguredKeys :
       /\ \A i \in 1..Len(gwResps) : \A str \in BodyStrings(gwResps[i]) : ~Includes(str, key)
       /\ \A str \in Logged : ~Includes(str, key)

C20_ExactlyThreeReframings ==
  reframes.run => (~reframes.thrown /\ Len(reframes.value) = 3)

\* C20 as amended: the reframings returned are an ordered sequence, as long
\* as the reply makes it: the elements of the array the reply holds, in
\* their order (three when the reply lists three), and the raw reply alone
\* when the reply has no "[" ... "]" span.
C20_ReframingsFollowReply ==
  reframes.run =>
    /\ ~reframes.thrown
    /\ (parts.embedded /\ ~HasToken(parts.pre, "[") /\ ~HasToken(parts.post, "]")
          /\ ~WholeTextIsOtherJSON) =>
         /\ Len(reframes.value) = Len(parts.elems)
         /\ \A i \in 1..Len(parts.elems) :
              reframes.value[i] = AtomValue(parts.elems[i])
    /\ (response.k = "str" /\ NoBracketSpan(response.w)) => reframes.value = <<response>>

\* three statements in a reply with prose around them have been returned
C20_Witness ==
  /\ reframes.run
  /\ parts.embedded
  /\ parts.pre = <<"p">>
  /\ parts.elems = <<"s", "s", "s">>
  /\ Len(reframes.value) = 3

\* the invocations of a type whose call to /api/openai is under way: a
\* request in flight, or the wait before the next attempt
CallsUnderWay(kind) ==
  {i \in 1..Len(invocations) :
     invocations[i].kind = kind /\ invocations[i].pc \in {"inflight", "sleeping"}}

SameRequestSameResponse ==
  \A r1 \in RequestIds, r2 \in RequestIds :
    (/\ handlers[r1].pc = "responded"
     /\ handlers[r2].pc = "responded"
     /\ handlers[r1].request = handlers[r2].request
     /\ handlers[r1].replies = handlers[r2].replies) =>
      /\ handlers[r1].calls = handlers[r2].calls
      /\ handlers[r1].resps = handlers[r2].resps

\* C19: the gateway is stateless per request: handling POST /api/openai
\* never writes process-level state (the keys and the configuration of
\* process.env), and under any interleaving of concurrent requests the
\* response to a request is determined by the request, the process
\* configuration and the vendor replies to its own calls.
C19_StatelessPerRequest ==
  [](SameRequestSameResponse) /\ [][env' = env]_vars

\* two requests with the same body are answered while both are open, one
\* of them received while the other was being handled
C19_Witness ==
  /\ handlers[1].pc = "responded"
  /\ handlers[2].pc = "responded"
  /\ handlers[1].request = handlers[2].request
  /\ handlers[1].provider = "anthropic"
  /\ Len(handlers[1].calls) = 2
  /\ handlers[1].replies = handlers[2].replies
  /\ handlers[1].resps[1].status = 200

\* a field that is missing, or blank once trimmed
IsBlank(v) == v = Absent \/ \A i \in 1..Len(v) : v[i] = "w"

\* the text of a field that is not blank, from its first to its last
\* character that is not whitespace
TrimmedText(v) ==
  LET solid == {i \in 1..Len(v) : v[i] # "w"}
  IN SubSeq(v, Min(solid), Max(solid))

\* how many lines of a prompt are the line given
Occurrences(lines, line) == Cardinality({i \in 1..Len(lines) : lines[i] = line})

\* what the claim says a field contributes to a prompt
ContributesAsClaimed(lines, v, heading, followUp) ==
  IF IsBlank(v)
  THEN /\ Occurrences(lines, <<heading>>) = 0
       /\ Occurrences(lines, <<followUp>>) = 0
  ELSE /\ Occurrences(lines, <<heading>>) = 1
       /\ Occurrences(lines, <<followUp>>) = 1
       /\ \E i \in 1..(Len(lines) - 2) :
            /\ lines[i] = <<heading>>
            /\ lines[i + 1] = TrimmedText(v)
            /\ lines[i + 2] = <<followUp>>

\* C21: in the solution and the reframing prompt an optional field
\* (stakeholders, root causes, impact assessment) that is missing or blank
\* after trimming contributes no section, neither heading nor follow-up
\* instruction, and a field that is not blank contributes exactly one
\* section, which holds its trimmed text.
C21_OptionalSections ==
  \A f \in FieldNames3 :
    /\ prompts.solution # NoPrompt =>
         ContributesAsClaimed(prompts.solution, fields[f],
                              SolutionHeading(f), SolutionFollowUp(f))
    /\ prompts.reframing # NoPrompt =>
         ContributesAsClaimed(prompts.reframing, fields[f],
                              ReframingHeading(f), ReframingFollowUp(f))

\* both prompts are built for a page with a blank stakeholders field, an
\* absent root-causes field and an impact field with spaces around its text
C21_Witness ==
  /\ prompts.solution # NoPrompt
  /\ prompts.reframing # NoPrompt
  /\ fields.stakeholders = <<"w">>
  /\ fields.rootCauses = Absent
  /\ fields.impactAssessment = <<"w", "a">>
  /\ Occurrences(prompts.solution, <<"a">>) = 1

\* the chat-completion calls among the calls the handler has made
ChatCallsMade == {i \in 1..Len(gwCalls) : gwCalls[i].endpoint # "models"}

\* the chat call of the request being handled has failed: the fetch was
\* rejected or the vendor answered with a non-success status
ChatCallFailed ==
  /\ gwPc = "responded"
  /\ gwReplies # << >>
  /\ LET reply == gwReplies[Len(gwReplies)]
     IN reply.t = "reject" \/ ~reply.ok

\* the failure is Anthropic's and its message contains "credit balance"
CreditCase ==
  /\ gwProvider = "anthropic"
  /\ LET reply == gwReplies[Len(gwReplies)]
     IN /\ reply.t = "json"
        /\ reply.data.error.k = "obj"
        /\ reply.data.error.message.k = "str"
        /\ Includes(reply.data.error.message.w, CREDIT_BALANCE)

\* C22: a request whose chat call failed in any way other than the
\* Anthropic credit-balance case is not redirected to the other vendor: it
\* has made exactly one chat-completion call, no call after the failure, and
\* its body has not been rewritten for OpenAI.
C22_FallbackOnlyForCreditCase ==
  (ChatCallFailed /\ ~CreditCase) =>
    /\ Cardinality(ChatCallsMade) = 1
    /\ Len(gwCalls) = Len(gwReplies)
    /\ gwProvider = "anthropic" => gwBody.provider = "anthropic"
    /\ \A i \in ChatCallsMade : gwCalls[i].vendor = gwProvider

\* an Anthropic request whose chat call, made after the model-list call,
\* failed with an overload error, and an answer carrying the vendor's status
C22_Witness ==
  /\ ChatCallFailed
  /\ ~CreditCase
  /\ gwProvider = "anthropic"
  /\ Len(gwCalls) = 2
  /\ gwReplies[2].t = "json"
  /\ gwReplies[2].status = 529
  /\ gwResps[1].status = 529

\* a header of the call carries the key
Carries(call, key) == key # NoKey /\ (call.bearer = key \/ call.xApiKey = key)

\* C23: every call the gateway makes to a vendor carries that vendor's key
\* and not the other's: a call to Anthropic has ANTHROPIC_API_KEY in
\* x-api-key, the anthropic-version header and OPENAI_API_KEY in no header;
\* a call to OpenAI has OPENAI_API_KEY as Bearer auth and ANTHROPIC_API_KEY
\* in no header.
C23_CredentialOfVendorCalled ==
  \A i \in 1..Len(gwCalls) :
    LET call == gwCalls[i]
    IN IF call.vendor = "anthropic"
       THEN /\ call.xApiKey = env.ANTHROPIC_API_KEY
            /\ call.version = ANTHROPIC_VERSION
            /\ ~Carries(call, env.OPENAI_API_KEY)
       ELSE /\ call.bearer = env.OPENAI_API_KEY
            /\ ~Carries(call, env.ANTHROPIC_API_KEY)

\* the calls made to Anthropic's messages endpoint for the request
AnthropicChatCalls ==
  {i \in 1..Len(gwCalls) :
     gwCalls[i].vendor = "anthropic" /\ gwCalls[i].endpoint = "messages"}

\* one system string and one message, of role 'user', holding the content
\* of the last message of the request
OneTrailingUserMessage(call) ==
  /\ call.system = SYSTEM_PROMPT
  /\ Len(call.messages) = 1
  /\ call.messages[1].role = "user"
  /\ call.messages[1].content = gwBody.messages[Len(gwBody.messages)].content

\* the positions of the messages of role 'system' in the request
SystemMessages == {i \in 1..Len(gwBody.messages) : gwBody.messages[i].role = "system"}

\* C24 as stated: the request sent to Anthropic has one system string and
\* exactly one message, a 'user' message with the content of the last
\* incoming message, and no incoming system message is forwarded.
C24_SystemNeverForwarded ==
  \A i \in AnthropicChatCalls :
    /\ OneTrailingUserMessage(gwCalls[i])
    /\ \A j \in SystemMessages :
         gwCalls[i].messages[1].content # gwBody.messages[j].content

\* C24 amended: the same, except that an incoming system message is kept
\* back only when it is not the last message of the request; the last
\* message is forwarded as a 'user' message whatever its role.
C24_OnlyLastMessageForwarded ==
  \A i \in AnthropicChatCalls :
    /\ OneTrailingUserMessage(gwCalls[i])
    /\ \A j \in SystemMessages \ {Len(gwBody.messages)} :
         gwCalls[i].messages[1].content # gwBody.messages[j].content

\* a request with a system message followed by a user message has been sent
\* on to Anthropic
C24_Witness ==
  /\ AnthropicChatCalls # {}
  /\ gwBody.messages = <<Message("system", "SYS"), Message("user", "PROMPT")>>
  /\ \E i \in AnthropicChatCalls : gwCalls[i].messages = <<Message("user", "PROMPT")>>

\* C25: once the user has selected a model, this.model, with which every
\* later request is built, changes only when the user selects again; a
\* configuration load that completes after the selection leaves it alone.
C25_SelectedModelPersists ==
  [][(nSelect >= 1 /\ nSelect' = nSelect) => model' = model]_vars

\* C26: the attempts of one call of _callOpenAI all send the request of the
\* first attempt, with its model, provider and max_tokens, whatever the
\* model selector does while the call is retrying.
C26_RetriesRepeatFirstRequest ==
  \A i \in 1..Len(attempts) :
    /\ attempts[i].body.model = attempts[1].body.model
    /\ attempts[i].body.provider = attempts[1].body.provider
    /\ attempts[i].body.max_tokens = attempts[1].body.max_tokens

\* the page has sent nothing to /api/openai for the operation under way
NothingIssued ==
  /\ attempts = << >>
  /\ wire = "none"
  /\ gwSrc # "client"
  /\ attempt = 0
  /\ opPc # "sleeping"

\* C27: the page issues no request to /api/openai while the configuration
\* load is pending, and none when the configuration it has loaded says
\* apiKeyConfigured false, the load having failed or not: an operation is
\* then rejected with the not-configured error, no attempt or retry made.
C27_NoRequestUnlessConfigured ==
  /\ cfgState = "loading" => NothingIssued /\ opPc # "done"
  /\ (cfgState = "settled" /\ ~config.apiKeyConfigured) =>
       /\ NothingIssued
       /\ opPc = "done" => opResult = Rejected(Str(MSG_CLIENT_NOT_CONFIGURED))

\* an operation invoked after a failed configuration load has been rejected
C27_Witness ==
  /\ cfgState = "settled"
  /\ config = FailedConfig
  /\ env.OPENAI_API_KEY # NoKey
  /\ opPc = "done"
  /\ opResult = Rejected(Str(MSG_CLIENT_NOT_CONFIGURED))
  /\ NothingIssued

\* the model-list calls among the calls the handler has made
ModelsCallsMade == {i \in 1..Len(gwCalls) : gwCalls[i].endpoint = "models"}

\* C28: whatever the model-list call answers (a rejected fetch, a
\* non-success status, a list without the chosen model), the gateway
\* answers nothing on its account and goes on to the chat call to Anthropic
\* with the chosen model; a request for a model whose name contains 'opus'
\* makes no model-list call.
C28_ModelCheckNeverDecides ==
  /\ \A i \in ModelsCallsMade :
       Len(gwReplies) >= i =>
         /\ Len(gwCalls) = i + 1
         /\ gwCalls[i + 1].vendor = "anthropic"
         /\ gwCalls[i + 1].endpoint = "messages"
         /\ gwBody.provider = "anthropic" =>
              gwCalls[i + 1].model = FinalModelName("anthropic", gwBody.model)
         /\ Len(gwResps) = IF Len(gwReplies) > i THEN 1 ELSE 0
  /\ (gwPc # "idle" /\ gwBody.provider = "anthropic" /\ Includes(gwBody.model, OPUS)) =>
       ModelsCallsMade = {}

\* Anthropic's list lacks the sonnet model asked for, the chat call has been
\* made all the same and its answer handed on
C28_Witness ==
  /\ gwPc = "responded"
  /\ ModelsCallsMade = {1}
  /\ gwReplies[1].t = "json"
  /\ gwReplies[1].ok
  /\ gwReplies[1].ids = {OPUS_DATED}
  /\ gwCalls[2].model = SONNET_DATED
  /\ gwResps[1].status = 200

\* the outbound calls of one gateway request stay within one model-list
\* call and two chat calls (the chat call and a fallback call)
OutboundCallsBounded ==
  /\ Cardinality(ModelsCallsMade) <= 1
  /\ Cardinality(ChatCallsMade) <= 2

\* C29: when every vendor call eventually settles, every request
\* posted to /api/openai is eventually responded to, having made at most
\* one model-list call, one chat call and one fallback call.
C29_GatewayResponds ==
  /\ (gwPc # "idle") ~> (gwResps # << >>)
  /\ []OutboundCallsBounded

====
